---- MODULE Spec2Model ----
(***************************************************************************)
(* A model of drorg's synchronisation engine (src/src/app.rs,               *)
(* src/src/google_apis.rs, src/src/accounts.rs) and of its ancestor-path   *)
(* search over the linkage graph (src/src/app.rs, LinkageTable).           *)
(***************************************************************************)
EXTENDS Integers, Sequences, FiniteSets, TLC

VARIABLES
    \* ---- LinkageTable and one find_parent_paths call ----
    link_rows,      \* the rows `q` loaded by load_linkage_table, in load order
    start_id,       \* the argument of find_parent_paths
    queue,          \* the work list (a Vec used as a stack)
    path_data,      \* node -> predecessor, NoneV for the start node
    results,        \* the paths found so far
    cur_ix,         \* the node popped last
    nbrs,           \* the neighbours of cur_ix the for loop has yet to visit
    fpp_pc,         \* position inside find_parent_paths
    walk,           \* what the call has done so far: the (node, predecessor)
                    \* pairs put into path_data and the nodes popped, in order
    \* ---- the local database ----
    docs,           \* table docs: id -> row contents, NoneV where there is no row
    assocs,         \* table account_associations: rows <<doc_id, account_id>>
    links,          \* table links: rows <<account_id, parent_id, child_id>>
    \* ---- the accounts' JSON files and one sync_account pass ----
    disk,           \* account id -> the AccountData last written to its file
    acct,           \* the_account_id of the pass
    mem,            \* account.data of the pass, in memory
    tok_cell,       \* the shared cell next_page_token of ChangeListing
    cur_page,       \* ChangeListingIterator.cur_page: None, or Some(the positions
                    \* of the page in hand that are yet to be yielded)
    finished,       \* ChangeListingIterator.finished
    final_page,     \* ChangeListingIterator.final_page
    sync_pc,        \* position inside sync_account
    sync_result,    \* how the last sync_account call ended
    \* ---- what the remote feed has done, and bookkeeping of the pass ----
    page_no,        \* pages received in this pass
    n_changes,      \* change records delivered since the start
    hist,           \* record of the pass (see InitHist)
    \* ---- one import_documents pass ----
    imp_pc,         \* position inside import_documents
    imp_listing,    \* the files the remote listing of the pass holds, in order
    imp_rest,       \* the files list_files has yet to yield
    imp_result,     \* how the last import_documents call ended
    imp_base,       \* Some(the store as the pass before left it) when this
                    \* pass repeats that pass: same account, same listing
    n_files,        \* files the remote listings have held since the start
    clock,          \* Utc::now(), in minutes
    \* ---- one maybe_sync_all_accounts call ----
    opt,            \* options.sync: "No", "Yes" or "Auto"
    drv_pc,         \* position inside maybe_sync_all_accounts
    drv_todo,       \* the accounts get_accounts() has yet to yield, in order
    drv_result,     \* how the last maybe_sync_all_accounts call ended
    drv_log,        \* per account the call has come to: what it decided and
                    \* how the account's sync pass ended
    cmd,            \* the login or sync --rebuild command that is running or
                    \* ran last: its position, its account, the accounts it
                    \* has yet to come to, the start token it fetched
    \* ---- what the command line reads and writes ----
    doc_cols,       \* table docs, the columns specifiers are resolved with:
                    \* id -> [name, modified_time, folder]
    doc_order,      \* the ids in the order a query over docs yields its rows
    listitems,      \* table listitems: rows <<listing_id, position, doc_id>>
    cli             \* the last call of process, process_one, print_doc_list
                    \* or set_cwd: what it returned, and in `before` table
                    \* listitems as the call found it

pvars == <<link_rows, start_id, queue, path_data, results, cur_ix, nbrs, fpp_pc, walk>>

dbvars == <<docs, assocs, links>>

svars == <<disk, acct, mem, tok_cell, cur_page, finished, final_page, sync_pc,
           sync_result, page_no, n_changes, hist>>

ivars == <<imp_pc, imp_listing, imp_rest, imp_result, imp_base, n_files, clock>>

dvars == <<opt, drv_pc, drv_todo, drv_result, drv_log, cmd>>

cvars == <<doc_cols, doc_order, listitems, cli>>

\* What the path search and sync_account leave alone.
xvars == <<ivars, dvars, cvars>>

vars == <<pvars, dbvars, svars, xvars>>

\* Option::None
NoneV == "None"

\* Document ids of the linkage graphs explored.
GraphIds == {"a", "b", "c"}

\* The largest number of link rows of one account in the graphs explored.
MaxLinks == 4

(***************************************************************************)
(* Sequence helpers.                                                        *)
(***************************************************************************)
Range(s) == {s[i] : i \in 1..Len(s)}

Contains(s, x) == \E i \in 1..Len(s) : s[i] = x

NoDup(s) == \A i, j \in 1..Len(s) : i # j => s[i] # s[j]

SeqsUpTo(S, n) == UNION {[1..k -> S] : k \in 0..n}

Reverse(s) == [i \in 1..Len(s) |-> s[Len(s) + 1 - i]]

(***************************************************************************)
(* load_linkage_table: one node per id of a row, one edge per row.  A row  *)
(* is <<parent_id, child_id>>; a transposed edge runs child -> parent.     *)
(* The graph is kept as the sequence of its edges in the order add_edge    *)
(* created them.                                                           *)
(***************************************************************************)
GraphNodes(rows) == {rows[i][1] : i \in 1..Len(rows)} \cup {rows[i][2] : i \in 1..Len(rows)}

\* A variant that adds every edge parent -> child.
GraphEdges_parent_first(rows, transposed) ==
    [i \in 1..Len(rows) |-> <<rows[i][1], rows[i][2]>>]

GraphEdges(rows, transposed) ==
    [i \in 1..Len(rows) |->
        IF transposed THEN <<rows[i][2], rows[i][1]>> ELSE <<rows[i][1], rows[i][2]>>]

load_linkage_table(rows, transposed) ==
    [transposed |-> transposed,
     nodes      |-> GraphNodes(rows),
     edges      |-> GraphEdges(rows, transposed)]

\* petgraph's Graph::neighbors walks a node's outgoing edges most recently
\* added first.
RECURSIVE NeighborsFrom(_, _, _)
NeighborsFrom(edges, n, i) ==
    IF i = 0 THEN <<>>
    ELSE IF edges[i][1] = n
         THEN <<edges[i][2]>> \o NeighborsFrom(edges, n, i - 1)
         ELSE NeighborsFrom(edges, n, i - 1)

neighbors(table, n) == NeighborsFrom(table.edges, n, Len(table.edges))

\* A variant that takes graph.externals(Direction::Incoming): the nodes
\* without an incoming edge.
roots_incoming(table) ==
    {n \in table.nodes : \A i \in 1..Len(table.edges) : table.edges[i][2] # n}

\* graph.externals(Direction::Outgoing): the nodes without an outgoing edge.
roots(table) ==
    {n \in table.nodes : \A i \in 1..Len(table.edges) : table.edges[i][1] # n}

(***************************************************************************)
(* The two walks along path_data.  A walk that comes back to a node it has *)
(* already left would never end in the code ("hang"); a lookup of a node   *)
(* that has no entry is the unwrap() of a None ("panic").                  *)
(***************************************************************************)
\* A variant of the loop check that compares the candidate with the current
\* node only and never follows the predecessor chain.
found_loop_cur_only(pd, ix, next_ix, seen) ==
    IF ix = next_ix THEN "loop" ELSE "clear"

RECURSIVE found_loop(_, _, _, _)
found_loop(pd, ix, next_ix, seen) ==
    IF ix = next_ix THEN "loop"
    ELSE IF ix \in seen THEN "hang"
    ELSE IF ix \notin DOMAIN pd THEN "panic"
    ELSE IF pd[ix] # NoneV THEN found_loop(pd, pd[ix], next_ix, seen \cup {ix})
    ELSE "clear"

\* The path pushed onto results when cur_ix is a root: cur_ix first, then its
\* predecessors, the node whose entry is None (the start) left out.
\* A variant of the path walk that pushes the node before looking at its
\* predecessor, so the start node ends the path.
RECURSIVE BuildPath_with_start(_, _, _)
BuildPath_with_start(pd, ix, seen) ==
    IF ix \in seen THEN <<"hang">>
    ELSE IF ix \notin DOMAIN pd THEN <<"panic">>
    ELSE IF pd[ix] # NoneV THEN <<ix>> \o BuildPath_with_start(pd, pd[ix], seen \cup {ix})
    ELSE <<ix>>

RECURSIVE BuildPath(_, _, _)
BuildPath(pd, ix, seen) ==
    IF ix \in seen THEN <<"hang">>
    ELSE IF ix \notin DOMAIN pd THEN <<"panic">>
    ELSE IF pd[ix] # NoneV THEN <<ix>> \o BuildPath(pd, pd[ix], seen \cup {ix})
    ELSE <<>>

EmptyMap == [x \in {} |-> NoneV]

\* Nothing put into path_data, nothing popped.
NoWalk == [installed |-> <<>>, popped |-> <<>>]

Insert(pd, k, v) == [x \in DOMAIN pd \cup {k} |-> IF x = k THEN v ELSE pd[x]]

TheTable == load_linkage_table(link_rows, TRUE)

(***************************************************************************)
(* find_parent_paths, one action per step.                                  *)
(***************************************************************************)
\* A variant that seeds the work list with whatever id it is given.
FppBegin_seeds_unknown ==
    /\ fpp_pc = "call"
    /\ queue' = <<start_id>>
    /\ path_data' = Insert(EmptyMap, start_id, NoneV)
    /\ results' = <<>>
    /\ fpp_pc' = "loop"
    /\ walk' = [walk EXCEPT !.installed = Append(@, <<start_id, NoneV>>)]
    /\ UNCHANGED <<link_rows, start_id, cur_ix, nbrs, dbvars, svars, xvars>>

\* Lines 517-530: an unknown start id returns at once, else the work list is
\* seeded with the start node.
FppBegin ==
    /\ fpp_pc = "call"
    /\ IF start_id \notin TheTable.nodes
       THEN /\ fpp_pc' = "done"
            /\ UNCHANGED <<queue, path_data, results, walk>>
       ELSE /\ queue' = <<start_id>>
            /\ path_data' = Insert(EmptyMap, start_id, NoneV)
            /\ results' = <<>>
            /\ fpp_pc' = "loop"
            /\ walk' = [walk EXCEPT !.installed = Append(@, <<start_id, NoneV>>)]
    /\ UNCHANGED <<link_rows, start_id, cur_ix, nbrs, dbvars, svars, xvars>>

\* Lines 532-553: pop the last node of the work list; a root completes a
\* path; then the for loop over its neighbours starts.
FppPop ==
    /\ fpp_pc = "loop"
    /\ Len(queue) > 0
    /\ \E cur \in {queue[Len(queue)]} :
       \E path \in {BuildPath(path_data, cur, {})} :
          /\ cur_ix' = cur
          /\ queue' = SubSeq(queue, 1, Len(queue) - 1)
          /\ walk' = [walk EXCEPT !.popped = Append(@, cur)]
          /\ IF cur \in roots(TheTable)
             THEN IF path # <<>> /\ path[Len(path)] \in {"hang", "panic"}
                  THEN /\ fpp_pc' = path[Len(path)]
                       /\ UNCHANGED <<results, nbrs>>
                  ELSE /\ results' = Append(results, path)
                       /\ nbrs' = neighbors(TheTable, cur)
                       /\ fpp_pc' = "for"
             ELSE /\ nbrs' = neighbors(TheTable, cur)
                  /\ fpp_pc' = "for"
                  /\ UNCHANGED results
    /\ UNCHANGED <<link_rows, start_id, path_data, dbvars, svars, xvars>>

\* A for loop without the test "Already enqueued?".
FppNeighbor_no_queue_test ==
    /\ fpp_pc = "for"
    /\ nbrs # <<>>
    /\ \E next_ix \in {Head(nbrs)} :
       \E fl \in {found_loop(path_data, cur_ix, next_ix, {})} :
          /\ nbrs' = Tail(nbrs)
          /\ IF fl = "loop"
             THEN UNCHANGED <<queue, path_data, fpp_pc, walk>>
             ELSE IF fl # "clear"
             THEN /\ fpp_pc' = fl
                  /\ UNCHANGED <<queue, path_data, walk>>
             ELSE /\ path_data' = Insert(path_data, next_ix, cur_ix)
                  /\ queue' = Append(queue, next_ix)
                  /\ walk' = [walk EXCEPT !.installed = Append(@, <<next_ix, cur_ix>>)]
                  /\ UNCHANGED fpp_pc
    /\ UNCHANGED <<link_rows, start_id, results, cur_ix, dbvars, svars, xvars>>

\* Lines 553-582: one turn of the for loop, for the neighbour next_ix.
FppNeighbor ==
    /\ fpp_pc = "for"
    /\ nbrs # <<>>
    /\ \E next_ix \in {Head(nbrs)} :
       \E fl \in {found_loop(path_data, cur_ix, next_ix, {})} :
          /\ nbrs' = Tail(nbrs)
          /\ IF Contains(queue, next_ix)
             THEN UNCHANGED <<queue, path_data, fpp_pc, walk>>
             ELSE IF fl = "loop"
             THEN UNCHANGED <<queue, path_data, fpp_pc, walk>>
             ELSE IF fl # "clear"
             THEN /\ fpp_pc' = fl
                  /\ UNCHANGED <<queue, path_data, walk>>
             ELSE /\ path_data' = Insert(path_data, next_ix, cur_ix)
                  /\ queue' = Append(queue, next_ix)
                  /\ walk' = [walk EXCEPT !.installed = Append(@, <<next_ix, cur_ix>>)]
                  /\ UNCHANGED fpp_pc
    /\ UNCHANGED <<link_rows, start_id, results, cur_ix, dbvars, svars, xvars>>

\* The for loop is over: back to the test of the while loop.
FppForEnd ==
    /\ fpp_pc = "for"
    /\ nbrs = <<>>
    /\ fpp_pc' = "loop"
    /\ UNCHANGED <<link_rows, start_id, queue, path_data, results, cur_ix, nbrs,
                   walk, dbvars, svars, xvars>>

\* Line 585: the work list is empty.
FppReturn ==
    /\ fpp_pc = "loop"
    /\ Len(queue) = 0
    /\ fpp_pc' = "done"
    /\ UNCHANGED <<link_rows, start_id, queue, path_data, results, cur_ix, nbrs,
                   walk, dbvars, svars, xvars>>

\* The rows of one account are distinct (parent, child) pairs: the primary
\* key of `links` is (account_id, parent_id, child_id).
LinkRowSeqs == {s \in SeqsUpTo(GraphIds \X GraphIds, MaxLinks) : NoDup(s)}

\* load_linkage_table(acct_id, true) followed by the call
\* find_parent_paths(start_id): the rows arrive in whatever order the query
\* returns them.
LoadTable ==
    /\ fpp_pc = "idle"
    /\ link_rows' \in LinkRowSeqs
    /\ start_id' \in GraphIds
    /\ fpp_pc' = "call"
    /\ UNCHANGED <<queue, path_data, results, cur_ix, nbrs, walk, dbvars, svars, xvars>>

\* The same call on the link rows of an account with one folder more and
\* fewer rows.
WideIds == GraphIds \cup {"w"}

MaxWideLinks == 3

LoadWideTable ==
    /\ fpp_pc = "idle"
    /\ link_rows' \in {s \in SeqsUpTo(WideIds \X WideIds, MaxWideLinks) : NoDup(s)}
    /\ start_id' \in WideIds
    /\ fpp_pc' = "call"
    /\ UNCHANGED <<queue, path_data, results, cur_ix, nbrs, walk, dbvars, svars, xvars>>

\* The same call on the link rows of a drive without cycles: every row
\* runs from a folder to an id that comes before it in WideOrder.
WideOrder == <<"a", "b", "c", "w">>

DagPairs ==
    UNION {{<<WideOrder[i], WideOrder[j]>> : j \in 1..(i - 1)} : i \in 1..Len(WideOrder)}

LoadDagTable ==
    /\ fpp_pc = "idle"
    /\ link_rows' \in {s \in SeqsUpTo(DagPairs, MaxLinks) : NoDup(s)}
    /\ start_id' \in WideIds
    /\ fpp_pc' = "call"
    /\ UNCHANGED <<queue, path_data, results, cur_ix, nbrs, walk, dbvars, svars, xvars>>

(***************************************************************************)
(* The synchronisation engine: the local database, the accounts' JSON      *)
(* files, the paging iterator over the change feed and sync_account.       *)
(***************************************************************************)
\* The logged-in accounts (rows of table accounts) and the document ids and
\* row contents the remote feed talks about.
Accounts == {1, 2}

DocIds == {"d", "e"}

Metas == {"m1"}

\* The most change records the remote feed delivers in one behaviour, the
\* longest page, and the most pages of one pass.
MaxChanges == 2

MaxPageLen == 2

MaxPages == 2

\* An Option whose contents are not a string: None is <<>>, Some(x) is <<x>>.
NoOpt == <<>>

Some(x) == <<x>>

IsSome(o) == o # <<>>

Unwrap(o) == o[1]

\* Change-page tokens.  The feed hands out a continuation token with every
\* page that is not the last and a fresh start token with the last one.
StartTok0 == "s0"

NewStartTok == "s1"
\* The newStartPageToken of a page that is not the last one of the feed.
EarlyStartTok == "s2"

NextTok(k) == <<"n1", "n2", "n3", "n4", "n5">>[k]

(***************************************************************************)
(* google_drive3::File and google_drive3::Change as the feed sends them.   *)
(* A record names its own id in file.id; the inputs explored give a file   *)
(* either the id of its change record or no id.                            *)
(***************************************************************************)
ParentLists == {ps \in SeqsUpTo(DocIds, Cardinality(DocIds)) : NoDup(ps)}

GoodFiles(fid) ==
    {[id |-> fid, meta |-> m, mtime_ok |-> TRUE, parents |-> ps] :
        m \in Metas, ps \in {NoOpt} \cup {Some(l) : l \in ParentLists}}

BadFiles(fid) ==
    {[id |-> NoneV, meta |-> "m1", mtime_ok |-> TRUE, parents |-> NoOpt],
     [id |-> fid, meta |-> "m1", mtime_ok |-> FALSE, parents |-> NoOpt]}

RemovedFlags == {NoOpt, Some(TRUE), Some(FALSE)}

Changes ==
    {[file_id |-> NoneV, removed |-> r, file |-> f] :
        r \in RemovedFlags,
        f \in {NoOpt, Some([id |-> "d", meta |-> "m1", mtime_ok |-> TRUE,
                           parents |-> Some(<<"e">>)])}}
    \cup
    UNION {{[file_id |-> d, removed |-> Some(TRUE), file |-> f] :
              f \in {NoOpt, Some([id |-> d, meta |-> "m1", mtime_ok |-> TRUE,
                                 parents |-> Some(<<"e">>)])}} :
           d \in DocIds}
    \cup
    UNION {{[file_id |-> d, removed |-> NoOpt, file |-> f] :
              f \in {NoOpt} \cup {Some(x) : x \in GoodFiles(d) \cup BadFiles(d)}} :
           d \in DocIds}
    \cup
    UNION {{[file_id |-> d, removed |-> Some(FALSE), file |-> f] :
              f \in {NoOpt, Some([id |-> d, meta |-> "m1", mtime_ok |-> TRUE,
                                 parents |-> Some(<<d, "e">>)])}} :
           d \in DocIds}

(***************************************************************************)
(* The statements sync_account sends to the database.  Every execute() is  *)
(* its own transaction and each may fail.                                  *)
(***************************************************************************)
\* NewDoc::from_api_object: an error without an id or a modification time.
from_api_object(file) ==
    IF file.id = NoneV THEN [ok |-> FALSE, id |-> NoneV, meta |-> NoneV]
    ELSE IF ~file.mtime_ok THEN [ok |-> FALSE, id |-> NoneV, meta |-> NoneV]
    ELSE [ok |-> TRUE, id |-> file.id, meta |-> file.meta]

\* A database whose replace_into on links removes the row it finds.
ExecStmt_toggles_link(db, st) ==
    CASE st[1] = "delete_links_parent" ->
            [db EXCEPT !.links = {l \in db.links : ~(l[1] = st[2] /\ l[2] = st[3])}]
      [] st[1] = "delete_links_child" ->
            [db EXCEPT !.links = {l \in db.links : ~(l[1] = st[2] /\ l[3] = st[3])}]
      [] st[1] = "delete_assocs" ->
            [db EXCEPT !.assocs = {x \in db.assocs : x[1] # st[3]}]
      [] st[1] = "delete_doc" ->
            [db EXCEPT !.docs = [db.docs EXCEPT ![st[3]] = NoneV]]
      [] st[1] = "replace_doc" ->
            [db EXCEPT !.docs = [db.docs EXCEPT ![st[3]] = st[4]]]
      [] st[1] = "replace_assoc" ->
            [db EXCEPT !.assocs = db.assocs \cup {<<st[3], st[2]>>}]
      [] st[1] = "replace_link" ->
            [db EXCEPT !.links =
                IF <<st[2], st[4], st[3]>> \in db.links
                THEN db.links \ {<<st[2], st[4], st[3]>>}
                ELSE db.links \cup {<<st[2], st[4], st[3]>>}]

\* A database whose replace_into on account_associations removes the row it
\* finds.
ExecStmt_toggles_assoc(db, st) ==
    CASE st[1] = "delete_links_parent" ->
            [db EXCEPT !.links = {l \in db.links : ~(l[1] = st[2] /\ l[2] = st[3])}]
      [] st[1] = "delete_links_child" ->
            [db EXCEPT !.links = {l \in db.links : ~(l[1] = st[2] /\ l[3] = st[3])}]
      [] st[1] = "delete_assocs" ->
            [db EXCEPT !.assocs = {x \in db.assocs : x[1] # st[3]}]
      [] st[1] = "delete_doc" ->
            [db EXCEPT !.docs = [db.docs EXCEPT ![st[3]] = NoneV]]
      [] st[1] = "replace_doc" ->
            [db EXCEPT !.docs = [db.docs EXCEPT ![st[3]] = st[4]]]
      [] st[1] = "replace_assoc" ->
            [db EXCEPT !.assocs =
                IF <<st[3], st[2]>> \in db.assocs
                THEN db.assocs \ {<<st[3], st[2]>>}
                ELSE db.assocs \cup {<<st[3], st[2]>>}]
      [] st[1] = "replace_link" ->
            [db EXCEPT !.links = db.links \cup {<<st[2], st[4], st[3]>>}]

ExecStmt(db, st) ==
    CASE st[1] = "delete_links_parent" ->
            [db EXCEPT !.links = {l \in db.links : ~(l[1] = st[2] /\ l[2] = st[3])}]
      [] st[1] = "delete_links_child" ->
            [db EXCEPT !.links = {l \in db.links : ~(l[1] = st[2] /\ l[3] = st[3])}]
      [] st[1] = "delete_assocs" ->
            [db EXCEPT !.assocs = {x \in db.assocs : x[1] # st[3]}]
      [] st[1] = "delete_doc" ->
            [db EXCEPT !.docs = [db.docs EXCEPT ![st[3]] = NoneV]]
      [] st[1] = "replace_doc" ->
            [db EXCEPT !.docs = [db.docs EXCEPT ![st[3]] = st[4]]]
      [] st[1] = "replace_assoc" ->
            [db EXCEPT !.assocs = db.assocs \cup {<<st[3], st[2]>>}]
      [] st[1] = "replace_link" ->
            [db EXCEPT !.links = db.links \cup {<<st[2], st[4], st[3]>>}]

RECURSIVE ExecAll(_, _, _)
ExecAll(db, stmts, n) ==
    IF n = 0 THEN db ELSE ExecStmt(ExecAll(db, stmts, n - 1), stmts[n])

\* A removal that forgets the rows in which the id is the child.
RemovalStmts_keeps_child_links(a, file_id) ==
    << <<"delete_links_parent", a, file_id>>,
       <<"delete_assocs", a, file_id>>,
       <<"delete_doc", a, file_id>> >>

\* A removal that drops every row of the account that links into a document.
RemovalStmts_clears_links(a, file_id) ==
    << <<"delete_links_child", a, "d">>,
       <<"delete_links_child", a, "e">>,
       <<"delete_links_parent", a, file_id>>,
       <<"delete_assocs", a, file_id>>,
       <<"delete_doc", a, file_id>> >>

\* A removal that leaves the row of table docs in place.
RemovalStmts_keeps_doc(a, file_id) ==
    << <<"delete_links_parent", a, file_id>>,
       <<"delete_links_child", a, file_id>>,
       <<"delete_assocs", a, file_id>> >>

\* Lines 197-215: a removal.
RemovalStmts(a, file_id) ==
    << <<"delete_links_parent", a, file_id>>,
       <<"delete_links_child", a, file_id>>,
       <<"delete_assocs", a, file_id>>,
       <<"delete_doc", a, file_id>> >>

\* Lines 222-250: an update.
LinkStmts(a, file_id, parents) ==
    [i \in 1..Len(parents) |-> <<"replace_link", a, file_id, parents[i]>>]

\* An update that adds the new parents to the rows already there.
UpdateStmts_union(a, file_id, new_doc, parents) ==
    << <<"replace_doc", a, new_doc.id, new_doc.meta>>,
       <<"replace_assoc", a, new_doc.id>> >>
    \o (IF IsSome(parents) THEN LinkStmts(a, file_id, Unwrap(parents)) ELSE <<>>)

UpdateStmts(a, file_id, new_doc, parents) ==
    << <<"replace_doc", a, new_doc.id, new_doc.meta>>,
       <<"replace_assoc", a, new_doc.id>>,
       <<"delete_links_child", a, file_id>> >>
    \o (IF IsSome(parents) THEN LinkStmts(a, file_id, Unwrap(parents)) ELSE <<>>)

\* A loop body that falls back on the id of the file payload when a record
\* marked removed has no file_id.
HandleChange_falls_back(a, change) ==
    IF change.file_id = NoneV
    THEN [kind |-> "skip",
          stmts |-> IF IsSome(change.removed) /\ Unwrap(change.removed)
                       /\ IsSome(change.file)
                    THEN RemovalStmts(a, Unwrap(change.file).id) ELSE <<>>]
    ELSE IF IsSome(change.removed) /\ Unwrap(change.removed)
    THEN [kind |-> "removed", stmts |-> RemovalStmts(a, change.file_id)]
    ELSE IF ~IsSome(change.file)
    THEN [kind |-> "no_file", stmts |-> <<>>]
    ELSE IF ~from_api_object(Unwrap(change.file)).ok
    THEN [kind |-> "bad_file", stmts |-> <<>>]
    ELSE [kind |-> "update",
          stmts |-> UpdateStmts(a, change.file_id,
                                from_api_object(Unwrap(change.file)),
                                Unwrap(change.file).parents)]

\* A loop body that passes over a record without file payload.
HandleChange_passes_over_no_file(a, change) ==
    IF change.file_id = NoneV
    THEN [kind |-> "skip", stmts |-> <<>>]
    ELSE IF IsSome(change.removed) /\ Unwrap(change.removed)
    THEN [kind |-> "removed", stmts |-> RemovalStmts(a, change.file_id)]
    ELSE IF ~IsSome(change.file)
    THEN [kind |-> "skip", stmts |-> <<>>]
    ELSE IF ~from_api_object(Unwrap(change.file)).ok
    THEN [kind |-> "bad_file", stmts |-> <<>>]
    ELSE [kind |-> "update",
          stmts |-> UpdateStmts(a, change.file_id,
                                from_api_object(Unwrap(change.file)),
                                Unwrap(change.file).parents)]

\* Lines 177-251, the body of the for loop up to the statements it sends:
\* what one change record asks of the database.
HandleChange(a, change) ==
    IF change.file_id = NoneV
    THEN [kind |-> "skip", stmts |-> <<>>]
    ELSE IF IsSome(change.removed) /\ Unwrap(change.removed)
    THEN [kind |-> "removed", stmts |-> RemovalStmts(a, change.file_id)]
    ELSE IF ~IsSome(change.file)
    THEN [kind |-> "no_file", stmts |-> <<>>]
    ELSE IF ~from_api_object(Unwrap(change.file)).ok
    THEN [kind |-> "bad_file", stmts |-> <<>>]
    ELSE [kind |-> "update",
          stmts |-> UpdateStmts(a, change.file_id,
                                from_api_object(Unwrap(change.file)),
                                Unwrap(change.file).parents)]

TheDb == [docs |-> docs, assocs |-> assocs, links |-> links]

\* A query without the filter on account_id.
LinksOf_any_account(ls, a) == ls

\* Lines 455-457 of app.rs: links.filter(account_id.eq(acct_id)).
LinksOf(ls, a) == {l \in ls : l[1] = a}

(***************************************************************************)
(* The record of a pass, kept for the properties below.                    *)
(***************************************************************************)
NoLast ==
    [kind |-> "none", id |-> NoneV, parents |-> {}, removed |-> NoOpt,
     has_file |-> FALSE, ok |-> FALSE]

InitHist ==
    [tok0      |-> NoneV,    \* the token the pass started from
     reqs      |-> 0,        \* page requests issued by the pass
     fed       |-> 0,        \* change records received in its pages
     applied   |-> 0,        \* change records its loop body has handled
     pos       |-> 0,        \* position in its page of the record yielded last
     in_order  |-> TRUE,     \* every record was yielded right after the one before
     last      |-> NoLast,   \* the change record handled last
     kinds     |-> [d \in DocIds |-> "none"]]
                             \* per id, the last applied records: "rem", "upd",
                             \* "rem,upd" (a removal, later an update), "upd,rem"

\* The record of the single changes ends with the walk.
WalkOver(h) ==
    [h EXCEPT !.last = NoLast, !.kinds = InitHist.kinds, !.pos = 0]

ParentSet(change) ==
    IF IsSome(change.file) /\ IsSome(Unwrap(change.file).parents)
    THEN Range(Unwrap(Unwrap(change.file).parents))
    ELSE {}

LastOf(change, kind, ok) ==
    [kind |-> kind, id |-> change.file_id,
     parents |-> IF kind = "update" THEN ParentSet(change) ELSE {},
     removed |-> IF kind \in {"skip", "no_file"} THEN change.removed ELSE NoOpt,
     has_file |-> IF kind \in {"skip", "no_file"} THEN IsSome(change.file) ELSE FALSE,
     ok |-> ok]

KindsAfter(kinds, change, kind) ==
    IF kind = "removed"
    THEN [kinds EXCEPT ![change.file_id] =
            IF @ \in {"upd", "rem,upd"} THEN "upd,rem" ELSE "rem"]
    ELSE IF kind = "update"
    THEN [kinds EXCEPT ![change.file_id] =
            IF @ \in {"rem", "upd,rem"} THEN "rem,upd" ELSE "upd"]
    ELSE kinds

(***************************************************************************)
(* sync_account, one action per step.                                       *)
(***************************************************************************)
\* The locals of sync_account and with_drive_hub (the Account read from its
\* file, the lister and its token cell) are dropped when the pass returns.
NoAccountData ==
    [token |-> NoneV, cred |-> "c0", root |-> NoneV, last_sync |-> NoOpt]

PassReturns(result) ==
    /\ sync_pc' = "idle"
    /\ sync_result' = result
    /\ mem' = NoAccountData
    /\ tok_cell' = NoneV
    /\ cur_page' = NoOpt
    /\ finished' = FALSE
    /\ final_page' = FALSE
    /\ page_no' = 0

\* A pass that writes the lister's token to the account's file on its way
\* out with an error.
EndWithError_saves_token(err) ==
    /\ PassReturns(err)
    /\ disk' = [disk EXCEPT ![acct].token = tok_cell]
    /\ UNCHANGED acct

\* The pass ends with an error raised inside the callback of with_drive_hub:
\* `callback(&hub)?` returns before save_to_json, and sync_account returns.
EndWithError(err) ==
    /\ PassReturns(err)
    /\ UNCHANGED <<disk, acct>>

\* app.rs 254 and accounts.rs 117: the for loop is over, the callback
\* returns lister.into_change_page_token() and the lister is dropped.
WalkReturns(m, tok) ==
    /\ sync_pc' = "hub_save"
    /\ mem' = m
    /\ tok_cell' = tok
    /\ cur_page' = NoOpt
    /\ finished' = FALSE
    /\ final_page' = FALSE
    /\ page_no' = 0
    /\ UNCHANGED <<disk, acct, sync_result>>

\* A pass that does not look whether the account has a token.
HasToken_unchecked(a) == TRUE

\* Lines 153-159: account.data.change_page_token.take() is Some.
HasToken(a) == disk[a].token # NoneV

\* Lines 150-173 and accounts.rs 101-116: the account is read from its file,
\* the token is taken out of account.data, the hub and the lister are made.
\* `data` is the account.data the caller hands over: what it read from the
\* account's file, with whatever it has set in it since.
SyncBeginWith(a, data) ==
    /\ sync_pc = "idle"
    /\ imp_pc = "idle"
    /\ acct' = a
    /\ UNCHANGED <<dbvars, disk, n_changes, pvars, ivars, cvars>>
    /\ IF HasToken(a)
       THEN \E http_ok \in BOOLEAN :
            /\ hist' = [InitHist EXCEPT !.tok0 = data.token]
            /\ IF http_ok
               THEN /\ sync_pc' = "walk"
                    /\ sync_result' = "running"
                    /\ mem' = [data EXCEPT !.token = NoneV]
                    /\ tok_cell' = data.token
                    /\ cur_page' = NoOpt
                    /\ finished' = FALSE
                    /\ final_page' = FALSE
                    /\ page_no' = 0
               ELSE PassReturns("http client")
       ELSE /\ PassReturns("no change-paging token")
            /\ hist' = InitHist

\* sync_account on an account as its file has it, while the feed has changes
\* left to deliver.
SyncBegin(a) ==
    /\ n_changes < MaxChanges
    /\ SyncBeginWith(a, disk[a])
    /\ UNCHANGED dvars

\* Lines 177-252: the loop body for the change at position `pos` of its page;
\* `rest` is the page left in the iterator, `h` the pass record so far and
\* `cont` the lister and account.data the pass carries on with.  Any one of
\* the statements sent may fail (fail_at; 0: none does).
LoopBody(change, pos, rest, h, cont) ==
    \E plan \in {HandleChange(acct, change)} :
    \E fail_at \in 0..Len(plan.stmts) :
    \E db \in {ExecAll(TheDb, plan.stmts,
                      IF fail_at = 0 THEN Len(plan.stmts) ELSE fail_at - 1)} :
    \E ok \in {plan.kind \in {"skip", "removed", "update"} /\ fail_at = 0} :
        /\ docs' = db.docs
        /\ assocs' = db.assocs
        /\ links' = db.links
        /\ hist' = [h EXCEPT
                      !.applied = @ + 1,
                      !.in_order = @ /\ pos = h.pos + 1,
                      !.pos = pos,
                      !.last = LastOf(change, plan.kind, ok),
                      !.kinds = IF ok THEN KindsAfter(@, change, plan.kind) ELSE @]
        /\ IF ok
           THEN /\ cur_page' = rest
                /\ finished' = FALSE
                /\ mem' = cont.mem
                /\ tok_cell' = cont.tok
                /\ final_page' = cont.final
                /\ page_no' = cont.page_no
                /\ UNCHANGED <<disk, acct, sync_pc, sync_result>>
           ELSE EndWithError(IF plan.kind = "no_file"
                             THEN "no file information"
                             ELSE IF plan.kind = "bad_file"
                             THEN "bad file object"
                             ELSE "database")

\* google_apis.rs 444-448: no page in hand, or its iterator is used up.
NothingInHand == IF IsSome(cur_page) THEN Unwrap(cur_page) = <<>> ELSE TRUE

\* google_apis.rs 444-448 and the loop body: the page in hand has a change
\* left.
SyncYield ==
    /\ sync_pc = "walk"
    /\ ~finished
    /\ IsSome(cur_page)
    /\ Unwrap(cur_page) # <<>>
    /\ \E change \in Changes :
          LoopBody(change, Head(Unwrap(cur_page)),
                   Some(Tail(Unwrap(cur_page))), hist,
                   [mem |-> mem, tok |-> tok_cell, final |-> final_page,
                    page_no |-> page_no])
    /\ UNCHANGED <<n_changes, pvars, xvars>>

\* What the server may answer to the request for the next page.  `changes`
\* is the length of the page's list, or None when the list is missing; the
\* records themselves are drawn when the iterator yields them.
Responses ==
    UNION {
    [ok        : BOOLEAN,
     next      : {nx},
     new_start : {NoneV, IF nx = NoneV THEN NewStartTok ELSE EarlyStartTok},
     changes   : {NoOpt} \cup
                 {Some(n) : n \in 0..(IF MaxChanges - n_changes < MaxPageLen
                                      THEN MaxChanges - n_changes
                                      ELSE MaxPageLen)}]
    : nx \in {NoneV} \cup (IF page_no + 1 < MaxPages
                            THEN {NextTok(page_no + 1)} ELSE {})}

\* A page iterator that loses the change after the one just taken.
RestOfPage_skips_one(n) == [i \in 1..(n - 2) |-> i + 2]

\* The positions 2..n of a page whose first change has just been taken.
RestOfPage(n) == [i \in 1..(n - 1) |-> i + 1]

\* An iterator that takes a page with a newStartPageToken for the last one
\* while it keeps the page's nextPageToken.
AfterPage_final_on_new_start(resp) ==
    [mem     |-> mem,
     tok     |-> IF resp.next # NoneV THEN resp.next ELSE resp.new_start,
     final   |-> (resp.new_start # NoneV),
     page_no |-> page_no + 1]

\* google_apis.rs 466-488: the token cell and the final_page flag after a
\* page that carries one of the two tokens.
AfterPage(resp) ==
    [mem     |-> mem,
     tok     |-> IF resp.next # NoneV THEN resp.next ELSE resp.new_start,
     final   |-> (resp.next = NoneV),
     page_no |-> page_no + 1]

\* google_apis.rs 453-522 and the loop body: no change in hand and the last
\* page not seen yet, so the next page is requested.
SyncRequest ==
    /\ sync_pc = "walk"
    /\ ~finished
    /\ NothingInHand
    /\ ~final_page
    /\ UNCHANGED <<pvars, xvars>>
    /\ \E resp \in Responses :
       \E h \in {[hist EXCEPT !.reqs = @ + 1, !.pos = 0]} :
          IF ~resp.ok
          THEN /\ EndWithError("request failed")
               /\ hist' = WalkOver(h)
               /\ UNCHANGED <<dbvars, n_changes>>
          ELSE IF resp.next = NoneV /\ resp.new_start = NoneV
          THEN /\ EndWithError("neither token")
               /\ hist' = WalkOver(h)
               /\ UNCHANGED <<dbvars, n_changes>>
          ELSE IF ~IsSome(resp.changes)
          THEN /\ EndWithError("no changes returned")
               /\ hist' = WalkOver(h)
               /\ UNCHANGED <<dbvars, n_changes>>
          ELSE IF Unwrap(resp.changes) = 0
          THEN /\ hist' = h
               /\ UNCHANGED <<dbvars, n_changes>>
               /\ IF AfterPage(resp).final
                  THEN \* the empty final page: next() returns None
                       WalkReturns(AfterPage(resp).mem, AfterPage(resp).tok)
                  ELSE EndWithError("empty page")
          ELSE /\ n_changes' = n_changes + Unwrap(resp.changes)
               /\ \E change \in Changes :
                     LoopBody(change, 1,
                              Some(RestOfPage(Unwrap(resp.changes))),
                              [h EXCEPT !.fed = @ + Unwrap(resp.changes)],
                              AfterPage(resp))

(***************************************************************************)
(* The two paging iterators on their own: ChangeListingIterator::next      *)
(* (google_apis.rs 434-524) and FileListing::next (google_apis.rs          *)
(* 219-311), called again and again whatever they return.  An iterator is  *)
(* [tok, cur_page, finished, final_page]; the items of page n are          *)
(* <<n, 1>>, <<n, 2>>, ...                                                  *)
(***************************************************************************)
\* The most calls of next() on one iterator.
MaxCalls == 6

\* The most pages one iterator is let ask for.
MaxIterPages == 3

PageItems(n, len) == [i \in 1..len |-> <<n, i>>]

\* What the server may answer to the request for page n: a failure, or a
\* page with or without either token and with or without its list, of up
\* to MaxPageLen items.
PageResponses(n) ==
    [ok        : BOOLEAN,
     next      : {NoneV} \cup (IF n < MaxIterPages THEN {NextTok(n)} ELSE {}),
     new_start : {NoneV, NewStartTok},
     changes   : {NoOpt} \cup {Some(k) : k \in 0..MaxPageLen}]

\* A next() that does not set `finished` when the request fails.
ListingNext_retries(kind, it, n, resp) ==
    IF it.finished
    THEN [it |-> it, out |-> <<"none">>, asked |-> NoOpt]
    ELSE IF IsSome(it.cur_page) /\ Unwrap(it.cur_page) # <<>>
    THEN [it |-> [it EXCEPT !.cur_page = Some(Tail(Unwrap(it.cur_page)))],
          out |-> <<"item", Head(Unwrap(it.cur_page))>>, asked |-> NoOpt]
    ELSE IF it.final_page
    THEN [it |-> [it EXCEPT !.finished = TRUE], out |-> <<"none">>, asked |-> NoOpt]
    ELSE
    LET sent == Some(it.tok)
        it1 == IF kind = "files" THEN [it EXCEPT !.tok = NoneV] ELSE it
        it2 == IF resp.next # NoneV THEN [it1 EXCEPT !.tok = resp.next]
               ELSE IF kind = "files" THEN [it1 EXCEPT !.final_page = TRUE]
               ELSE [it1 EXCEPT !.tok = resp.new_start, !.final_page = TRUE]
    IN  IF ~resp.ok
        THEN [it |-> it1, out |-> <<"err", "request failed">>, asked |-> sent]
        ELSE IF kind = "changes" /\ resp.next = NoneV /\ resp.new_start = NoneV
        THEN [it |-> [it1 EXCEPT !.finished = TRUE],
              out |-> <<"err", "neither token">>, asked |-> sent]
        ELSE IF ~IsSome(resp.changes)
        THEN [it |-> [it2 EXCEPT !.finished = TRUE],
              out |-> <<"err", "no list returned">>, asked |-> sent]
        ELSE IF Unwrap(resp.changes) = 0
        THEN [it |-> [it2 EXCEPT !.finished = TRUE],
              out |-> IF it2.final_page THEN <<"none">> ELSE <<"err", "empty page">>,
              asked |-> sent]
        ELSE [it |-> [it2 EXCEPT !.cur_page =
                         Some(Tail(PageItems(n, Unwrap(resp.changes))))],
              out |-> <<"item", <<n, 1>>>>, asked |-> sent]

\* A next() that asks for every page with the token it was created with.
ListingNext_keeps_token(kind, it, n, resp) ==
    IF it.finished
    THEN [it |-> it, out |-> <<"none">>, asked |-> NoOpt]
    ELSE IF IsSome(it.cur_page) /\ Unwrap(it.cur_page) # <<>>
    THEN [it |-> [it EXCEPT !.cur_page = Some(Tail(Unwrap(it.cur_page)))],
          out |-> <<"item", Head(Unwrap(it.cur_page))>>, asked |-> NoOpt]
    ELSE IF it.final_page
    THEN [it |-> [it EXCEPT !.finished = TRUE], out |-> <<"none">>, asked |-> NoOpt]
    ELSE
    LET sent == Some(it.tok)
        it1 == it
        it2 == IF resp.next # NoneV THEN it1
               ELSE IF kind = "files" THEN [it1 EXCEPT !.final_page = TRUE]
               ELSE [it1 EXCEPT !.tok = resp.new_start, !.final_page = TRUE]
    IN  IF ~resp.ok
        THEN [it |-> [it1 EXCEPT !.finished = TRUE],
              out |-> <<"err", "request failed">>, asked |-> sent]
        ELSE IF kind = "changes" /\ resp.next = NoneV /\ resp.new_start = NoneV
        THEN [it |-> [it1 EXCEPT !.finished = TRUE],
              out |-> <<"err", "neither token">>, asked |-> sent]
        ELSE IF ~IsSome(resp.changes)
        THEN [it |-> [it2 EXCEPT !.finished = TRUE],
              out |-> <<"err", "no list returned">>, asked |-> sent]
        ELSE IF Unwrap(resp.changes) = 0
        THEN [it |-> [it2 EXCEPT !.finished = TRUE],
              out |-> IF it2.final_page THEN <<"none">> ELSE <<"err", "empty page">>,
              asked |-> sent]
        ELSE [it |-> [it2 EXCEPT !.cur_page =
                         Some(Tail(PageItems(n, Unwrap(resp.changes))))],
              out |-> <<"item", <<n, 1>>>>, asked |-> sent]

\* One call of next() on iterator `it` of kind "changes" or "files"; `resp`
\* is what the server answers should the call ask for page n.  The result
\* is the iterator afterwards, what the call returns and the page token the
\* request carried (None when no request was made; Some(None) is a request
\* without page token).
\*   google_apis.rs 437-439 / 222-224: finished
\*   google_apis.rs 444-448 / 229-233: an item of the page in hand
\*   google_apis.rs 453-456 / 238-241: the final page is used up
\*   google_apis.rs 460-470 / 247-263: the request (FileListing takes its
\*     token out of the iterator, line 251)
\*   google_apis.rs 477-488 / 272-277: the tokens of the page
\*   google_apis.rs 490-496 / 279-285: the list of the page
\*   google_apis.rs 500-519 / 289-308: the first item, or the empty page
ListingNext(kind, it, n, resp) ==
    IF it.finished
    THEN [it |-> it, out |-> <<"none">>, asked |-> NoOpt]
    ELSE IF IsSome(it.cur_page) /\ Unwrap(it.cur_page) # <<>>
    THEN [it |-> [it EXCEPT !.cur_page = Some(Tail(Unwrap(it.cur_page)))],
          out |-> <<"item", Head(Unwrap(it.cur_page))>>, asked |-> NoOpt]
    ELSE IF it.final_page
    THEN [it |-> [it EXCEPT !.finished = TRUE], out |-> <<"none">>, asked |-> NoOpt]
    ELSE
    LET sent == Some(it.tok)
        it1 == IF kind = "files" THEN [it EXCEPT !.tok = NoneV] ELSE it
        it2 == IF resp.next # NoneV THEN [it1 EXCEPT !.tok = resp.next]
               ELSE IF kind = "files" THEN [it1 EXCEPT !.final_page = TRUE]
               ELSE [it1 EXCEPT !.tok = resp.new_start, !.final_page = TRUE]
    IN  IF ~resp.ok
        THEN [it |-> [it1 EXCEPT !.finished = TRUE],
              out |-> <<"err", "request failed">>, asked |-> sent]
        ELSE IF kind = "changes" /\ resp.next = NoneV /\ resp.new_start = NoneV
        THEN [it |-> [it1 EXCEPT !.finished = TRUE],
              out |-> <<"err", "neither token">>, asked |-> sent]
        ELSE IF ~IsSome(resp.changes)
        THEN [it |-> [it2 EXCEPT !.finished = TRUE],
              out |-> <<"err", "no list returned">>, asked |-> sent]
        ELSE IF Unwrap(resp.changes) = 0
        THEN [it |-> [it2 EXCEPT !.finished = TRUE],
              out |-> IF it2.final_page THEN <<"none">> ELSE <<"err", "empty page">>,
              asked |-> sent]
        ELSE [it |-> [it2 EXCEPT !.cur_page =
                         Some(Tail(PageItems(n, Unwrap(resp.changes))))],
              out |-> <<"item", <<n, 1>>>>, asked |-> sent]

\* The iterator the variables hold.
TheIter ==
    [tok |-> tok_cell, cur_page |-> cur_page, finished |-> finished,
     final_page |-> final_page]

\* google_apis.rs 412-424 and 199-211: list_changes(hub, token, ..) makes an
\* iterator around the account's stored token, list_files(hub, ..) one
\* without a page token.  In this part of the model hist is the record of
\* the iteration: its kind, the token it began with and, call by call, what
\* next() returned, the token it sent and the page it received.
IterNew(kind) ==
    /\ sync_pc = "idle"
    /\ imp_pc = "idle"
    /\ sync_pc' = "iter"
    /\ tok_cell' = IF kind = "changes" THEN disk[acct].token ELSE NoneV
    /\ cur_page' = NoOpt
    /\ finished' = FALSE
    /\ final_page' = FALSE
    /\ page_no' = 0
    /\ hist' = [kind |-> kind, tok0 |-> disk[acct].token, calls |-> <<>>]
    /\ UNCHANGED <<pvars, dbvars, xvars, disk, acct, mem, sync_result, n_changes>>

\* One call of next().
ListingCall ==
    /\ sync_pc = "iter"
    /\ Len(hist.calls) < MaxCalls
    /\ \E resp \in PageResponses(page_no + 1) :
       \E r \in {ListingNext(hist.kind, TheIter, page_no + 1, resp)} :
          /\ tok_cell' = r.it.tok
          /\ cur_page' = r.it.cur_page
          /\ finished' = r.it.finished
          /\ final_page' = r.it.final_page
          /\ page_no' = IF IsSome(r.asked) THEN page_no + 1 ELSE page_no
          /\ hist' = [hist EXCEPT !.calls =
                         Append(@, [out |-> r.out, asked |-> r.asked,
                                    page |-> IF IsSome(r.asked) THEN Some(resp)
                                             ELSE NoOpt])]
    /\ UNCHANGED <<pvars, dbvars, xvars, disk, acct, mem, sync_pc, sync_result,
                   n_changes>>

\* google_apis.rs 453-456: the last page is used up, next() returns None and
\* the for loop ends.
SyncWalkDone ==
    /\ sync_pc = "walk"
    /\ ~finished
    /\ NothingInHand
    /\ final_page
    /\ WalkReturns(mem, tok_cell)
    /\ UNCHANGED <<dbvars, n_changes, hist, pvars, xvars>>

\* accounts.rs 73-86: save_to_json writes a temporary file and renames it
\* over the account's file, so a failed write leaves the file as it was.
save_to_json(data, io_ok) ==
    IF io_ok THEN [disk EXCEPT ![acct] = data] ELSE disk

\* accounts.rs 119-122: the callback returned Ok, with_drive_hub saves
\* account.data as it stands.
HubSave ==
    /\ sync_pc = "hub_save"
    /\ hist' = WalkOver(hist)
    /\ \E io_ok \in BOOLEAN :
          /\ disk' = save_to_json(mem, io_ok)
          /\ IF io_ok
             THEN /\ sync_pc' = "final_save"
                  /\ UNCHANGED <<mem, tok_cell, cur_page, finished, final_page,
                                 page_no, sync_result>>
             ELSE PassReturns("hub save failed")
    /\ UNCHANGED <<dbvars, acct, n_changes, pvars, xvars>>

\* app.rs 257-259: the token goes back into account.data, which is saved.
FinalSave ==
    /\ sync_pc = "final_save"
    /\ \E io_ok \in BOOLEAN :
          /\ disk' = save_to_json([mem EXCEPT !.token = tok_cell], io_ok)
          /\ PassReturns(IF io_ok THEN "ok" ELSE "final save failed")
    /\ UNCHANGED <<dbvars, acct, n_changes, hist, pvars, xvars>>


(***************************************************************************)
(* maybe_sync_all_accounts (app.rs 269-301): the accounts are taken in the  *)
(* order get_accounts() yields them; each one that should sync gets one     *)
(* sync_account pass, and `?` ends the call at the first error.             *)
(***************************************************************************)
\* Line 271: resync_delay, in minutes.
ResyncDelay == 5

\* The latest time the clock shows.
MaxClock == 6

SyncOptions == {"No", "Yes", "Auto"}

\* The orders in which read_dir may yield the accounts' files.
Orders == {s \in [1..Cardinality(Accounts) -> Accounts] : Range(s) = Accounts}

\* Lines 278-288.
should_sync(o, last_sync, now) ==
    CASE o = "No" -> FALSE
      [] o = "Yes" -> TRUE
      [] OTHER -> IF IsSome(last_sync)
                  THEN now - Unwrap(last_sync) > ResyncDelay
                  ELSE TRUE

LogEntry(a, synced) ==
    [a |-> a, synced |-> synced, last0 |-> disk[a].last_sync,
     result |-> IF synced THEN "running" ELSE "skipped",
     saved |-> disk[a]]

\* Time passes between calls.
Tick ==
    /\ drv_pc = "idle"
    /\ sync_pc = "idle"
    /\ imp_pc = "idle"
    /\ \E dt \in {ResyncDelay, ResyncDelay + 1} :
          /\ clock + dt <= MaxClock
          /\ clock' = clock + dt
    /\ UNCHANGED <<pvars, dbvars, svars, dvars, cvars, imp_pc, imp_listing, imp_rest,
                   imp_result, imp_base, n_files>>

\* Line 273: get_accounts()? opens the accounts directory.
DrvBegin(o) ==
    /\ drv_pc = "idle"
    /\ sync_pc = "idle"
    /\ imp_pc = "idle"
    /\ opt' = o
    /\ drv_log' = <<>>
    /\ UNCHANGED cmd
    /\ \E dir_ok \in BOOLEAN :
          IF dir_ok
          THEN /\ drv_pc' = "loop"
               /\ drv_result' = "running"
               /\ drv_todo' \in Orders
          ELSE /\ drv_pc' = "idle"
               /\ drv_result' = "accounts directory"
               /\ drv_todo' = <<>>
    /\ UNCHANGED <<pvars, dbvars, svars, ivars, cvars>>

\* A sync pass that goes on with the account after it has failed.
DrvAfter_carries_on ==
    /\ drv_pc = "wait"
    /\ sync_pc = "idle"
    /\ drv_log' = [drv_log EXCEPT ![Len(drv_log)].result = sync_result,
                                  ![Len(drv_log)].saved = disk[acct]]
    /\ drv_pc' = "loop"
    /\ UNCHANGED <<pvars, dbvars, svars, ivars, cvars, opt, drv_todo, drv_result, cmd>>

\* Line 296: sync_account has returned; `?` passes its error on.
DrvAfter ==
    /\ drv_pc = "wait"
    /\ sync_pc = "idle"
    /\ drv_log' = [drv_log EXCEPT ![Len(drv_log)].result = sync_result,
                                  ![Len(drv_log)].saved = disk[acct]]
    /\ IF sync_result = "ok"
       THEN /\ drv_pc' = "loop"
            /\ UNCHANGED drv_result
       ELSE /\ drv_pc' = "idle"
            /\ drv_result' = sync_result
    /\ UNCHANGED <<pvars, dbvars, svars, ivars, cvars, opt, drv_todo, cmd>>

\* Lines 274-297: one turn of the for loop, up to the call of sync_account;
\* line 300 once the iterator is exhausted.
DrvStep ==
    /\ drv_pc = "loop"
    /\ sync_pc = "idle"
    /\ UNCHANGED <<opt, cmd>>
    /\ IF drv_todo = <<>>
       THEN /\ drv_pc' = "idle"
            /\ drv_result' = "ok"
            /\ UNCHANGED <<pvars, dbvars, svars, ivars, cvars, drv_todo, drv_log>>
       ELSE \E a \in {Head(drv_todo)} : \E load_ok \in BOOLEAN :
            IF ~load_ok
            THEN /\ drv_pc' = "idle"
                 /\ drv_result' = "load failed"
                 /\ UNCHANGED <<pvars, dbvars, svars, ivars, cvars, drv_todo, drv_log>>
            ELSE /\ drv_todo' = Tail(drv_todo)
                 /\ UNCHANGED drv_result
                 /\ IF should_sync(opt, disk[a].last_sync, clock)
                    THEN /\ drv_log' = Append(drv_log, LogEntry(a, TRUE))
                         /\ drv_pc' = "wait"
                         /\ SyncBeginWith(a, [disk[a] EXCEPT
                                                 !.last_sync = Some(clock)])
                    ELSE /\ drv_log' = Append(drv_log, LogEntry(a, FALSE))
                         /\ UNCHANGED <<pvars, dbvars, svars, ivars, cvars, drv_pc>>

(***************************************************************************)
(* import_documents: the full import of one account.                       *)
(***************************************************************************)
\* The id of the root folder of an account's drive.
RootOf(a) == <<"r1", "r2">>[a]

AllIds == DocIds \cup {RootOf(a) : a \in Accounts}

\* The most files one remote listing holds, and the most files the
\* listings of one behaviour hold together.
MaxFiles == 2

MaxListed == 4

\* The file google_apis::get_file(hub, "root") answers with.
RootFile(a) ==
    [id |-> RootOf(a), meta |-> "m1", mtime_ok |-> TRUE, parents |-> NoOpt]

\* The files a listing of account a may hold: folder d without a parent
\* list or in the root, document e in d or in the root, or a file object
\* without an id.
ListedFiles(a) ==
    {[id |-> "d", meta |-> "m1", mtime_ok |-> TRUE, parents |-> ps] :
        ps \in {NoOpt, Some(<<RootOf(a)>>)}}
    \cup
    {[id |-> "e", meta |-> "m1", mtime_ok |-> TRUE, parents |-> Some(<<p>>)] :
        p \in {"d", RootOf(a)}}
    \cup {[id |-> NoneV, meta |-> "m1", mtime_ok |-> TRUE, parents |-> NoOpt]}

\* Lines 92-100: the statements for the root folder.
RootStmts(a, new_doc) ==
    << <<"replace_doc", a, new_doc.id, new_doc.meta>>,
       <<"replace_assoc", a, new_doc.id>> >>

\* An import that replaces the inbound links of a file, as sync_account does.
ImportStmts_replaces_links(a, new_doc, parents) ==
    RootStmts(a, new_doc)
    \o << <<"delete_links_child", a, new_doc.id>> >>
    \o (IF IsSome(parents) THEN LinkStmts(a, new_doc.id, Unwrap(parents)) ELSE <<>>)

\* Lines 113-134: the statements for one listed file.
ImportStmts(a, new_doc, parents) ==
    RootStmts(a, new_doc)
    \o (IF IsSome(parents) THEN LinkStmts(a, new_doc.id, Unwrap(parents)) ELSE <<>>)

\* import_documents returns; the Account of the caller is not modelled
\* beyond the call.
ImportReturns(result) ==
    /\ imp_pc' = "idle"
    /\ imp_result' = result
    /\ imp_rest' = <<>>
    /\ mem' = NoAccountData

\* An error inside the callback: `callback(&hub)?` and then `})?` return
\* before anything is saved.
ImportFails(err) ==
    /\ ImportReturns(err)
    /\ imp_listing' = <<>>
    /\ imp_base' = NoOpt
    /\ UNCHANGED disk

\* The statements are sent one by one; statement fail_at fails (0: none).
SendAll(stmts, fail_at) ==
    \E db \in {ExecAll(TheDb, stmts,
                      IF fail_at = 0 THEN Len(stmts) ELSE fail_at - 1)} :
        /\ docs' = db.docs
        /\ assocs' = db.assocs
        /\ links' = db.links

\* Lines 77-103 and accounts.rs 101-116: the hub is made, the root folder is
\* fetched and stored.  With `again` the pass runs right after a completed
\* pass of the same account and the remote listing is what it was then;
\* otherwise the files of the listing are drawn as list_files yields them.
\* `data` is the account.data of the Account the caller hands over.
ImportBeginWith(a, again, data) ==
    /\ sync_pc = "idle"
    /\ imp_pc = "idle"
    /\ again => (imp_result = "ok" /\ acct = a
                 /\ n_files + Len(imp_listing) <= MaxListed)
    /\ acct' = a
    /\ UNCHANGED <<pvars, cvars, disk, tok_cell, cur_page, finished, final_page,
                   sync_pc, sync_result, page_no, n_changes, hist, n_files,
                   clock>>
    /\ \E outcome \in {"http client", "request failed", "sent"} :
          IF outcome # "sent"
          THEN /\ ImportFails(outcome)
               /\ UNCHANGED dbvars
          ELSE \E stmts \in {RootStmts(a, from_api_object(RootFile(a)))} :
               \E fail_at \in 0..Len(stmts) :
                  /\ SendAll(stmts, fail_at)
                  /\ IF fail_at # 0
                     THEN ImportFails("database")
                     ELSE /\ imp_pc' = "files"
                          /\ imp_result' = "running"
                          /\ imp_listing' = IF again THEN imp_listing ELSE <<>>
                          /\ imp_rest' = IF again THEN imp_listing ELSE <<>>
                          /\ imp_base' = IF again THEN Some(TheDb) ELSE NoOpt
                          /\ mem' = data
                          /\ UNCHANGED disk

\* import_documents on an account as its file has it.
ImportBegin(a, again) ==
    /\ ImportBeginWith(a, again, disk[a])
    /\ UNCHANGED dvars

\* Lines 112-134: the loop body for one file list_files has yielded; `lst`
\* and `rest` are the listing seen and the listing left once it is stored.
StoreFile(file, lst, rest) ==
    \E new_doc \in {from_api_object(file)} :
       IF ~new_doc.ok
       THEN /\ ImportFails("bad file object")
            /\ UNCHANGED dbvars
       ELSE \E stmts \in {ImportStmts(acct, new_doc, file.parents)} :
            \E fail_at \in 0..Len(stmts) :
               /\ SendAll(stmts, fail_at)
               /\ IF fail_at # 0
                  THEN ImportFails("database")
                  ELSE /\ imp_listing' = lst
                       /\ imp_rest' = rest
                       /\ UNCHANGED <<imp_pc, imp_result, imp_base, mem, disk>>

\* Lines 105-135: list_files yields the next file of the listing, or an
\* error when the request for its page fails, and the loop body stores it.
ImportFile ==
    /\ imp_pc = "files"
    /\ UNCHANGED <<pvars, dvars, cvars, acct, tok_cell, cur_page, finished, final_page,
                   sync_pc, sync_result, page_no, n_changes, hist, clock>>
    /\ n_files < MaxListed
    /\ n_files' = n_files + 1
    /\ IF IsSome(imp_base) THEN imp_rest # <<>> ELSE Len(imp_listing) < MaxFiles
    /\ \/ /\ ImportFails("request failed")
          /\ UNCHANGED dbvars
       \/ IF IsSome(imp_base)
          THEN StoreFile(Head(imp_rest), imp_listing, Tail(imp_rest))
          ELSE \E file \in ListedFiles(acct) :
                  StoreFile(file, Append(imp_listing, file), <<>>)

\* An import whose callback stores the root id in account.data itself,
\* before with_drive_hub saves it.
ImportHubSave_sets_root ==
    /\ imp_pc = "files"
    /\ imp_rest = <<>>
    /\ UNCHANGED <<pvars, dvars, cvars, dbvars, acct, tok_cell, cur_page, finished,
                   final_page, sync_pc, sync_result, page_no, n_changes, hist,
                   n_files, clock>>
    /\ \E outcome \in {"request failed", "hub save failed", "saved"} :
          IF outcome = "request failed"
          THEN ImportFails(outcome)
          ELSE /\ disk' = save_to_json([mem EXCEPT !.root = RootOf(acct)],
                                       outcome = "saved")
               /\ IF outcome = "saved"
                  THEN /\ imp_pc' = "final_save"
                       /\ UNCHANGED <<imp_listing, imp_rest, imp_result,
                                      imp_base, mem>>
                  ELSE /\ ImportReturns(outcome)
                       /\ imp_listing' = <<>>
                       /\ imp_base' = NoOpt

\* Lines 135-138 and accounts.rs 117-122: the listing is used up (or the
\* request that should end it fails), the callback returns the root id and
\* with_drive_hub saves account.data.
ImportHubSave ==
    /\ imp_pc = "files"
    /\ imp_rest = <<>>
    /\ UNCHANGED <<pvars, dvars, cvars, dbvars, acct, tok_cell, cur_page, finished,
                   final_page, sync_pc, sync_result, page_no, n_changes, hist,
                   n_files, clock>>
    /\ \E outcome \in {"request failed", "hub save failed", "saved"} :
          IF outcome = "request failed"
          THEN ImportFails(outcome)
          ELSE /\ disk' = save_to_json(mem, outcome = "saved")
               /\ IF outcome = "saved"
                  THEN /\ imp_pc' = "final_save"
                       /\ UNCHANGED <<imp_listing, imp_rest, imp_result,
                                      imp_base, mem>>
                  ELSE /\ ImportReturns(outcome)
                       /\ imp_listing' = <<>>
                       /\ imp_base' = NoOpt

\* Lines 140-143: root_folder_id and last_sync are set and the account is
\* saved.
ImportFinalSave ==
    /\ imp_pc = "final_save"
    /\ UNCHANGED <<pvars, dvars, cvars, dbvars, acct, tok_cell, cur_page, finished,
                   final_page, sync_pc, sync_result, page_no, n_changes, hist,
                   n_files, clock>>
    /\ \E io_ok \in BOOLEAN :
          /\ disk' = save_to_json([mem EXCEPT !.root = RootOf(acct),
                                              !.last_sync = Some(clock)], io_ok)
          /\ ImportReturns(IF io_ok THEN "ok" ELSE "final save failed")
          /\ imp_listing' = IF io_ok THEN imp_listing ELSE <<>>
          /\ imp_base' = IF io_ok THEN imp_base ELSE NoOpt

(***************************************************************************)
(* The login command (main.rs 209-268) and sync --rebuild (main.rs          *)
(* 393-404): acquire_change_page_token, then import_documents.             *)
(***************************************************************************)
NoCmd ==
    [kind |-> "none", pc |-> "idle", a |-> 1, todo |-> <<>>, fetched |-> NoneV,
     result |-> "none"]

\* The start tokens getStartPageToken may answer with.
StartToks == {StartTok0, NewStartTok}

\* The command returns; its Account is dropped.
CmdReturns(result) ==
    /\ cmd' = [cmd EXCEPT !.pc = "idle", !.result = result]
    /\ mem' = NoAccountData

\* What the steps of a command before import_documents leave alone.
CmdFrame ==
    UNCHANGED <<pvars, dbvars, cvars, ivars, opt, drv_pc, drv_todo, drv_result,
                drv_log, tok_cell, cur_page, finished, final_page, sync_pc,
                sync_result, page_no, n_changes, hist>>

\* main.rs 209-252: authorize_interactively, then fetch_email_address, which
\* saves the new Account (accounts.rs 191-195) over whatever file the account
\* had, then the row of table accounts.
LoginBegin(a) ==
    /\ cmd.pc = "idle"
    /\ drv_pc = "idle"
    /\ sync_pc = "idle"
    /\ imp_pc = "idle"
    /\ acct' = a
    /\ CmdFrame
    /\ \E outcome \in {"authorize", "email request", "email save", "database", "ok"} :
          /\ disk' = IF outcome \in {"database", "ok"}
                      THEN [disk EXCEPT ![a] = NoAccountData]
                      ELSE disk
          /\ cmd' = [kind |-> "login", pc |-> IF outcome = "ok" THEN "acquire" ELSE "idle",
                     a |-> a, todo |-> <<>>, fetched |-> NoneV,
                     result |-> IF outcome = "ok" THEN "running" ELSE outcome]
          /\ mem' = NoAccountData

\* main.rs 393: get_accounts()? opens the accounts directory.
RebuildBegin ==
    /\ cmd.pc = "idle"
    /\ drv_pc = "idle"
    /\ sync_pc = "idle"
    /\ imp_pc = "idle"
    /\ CmdFrame
    /\ UNCHANGED <<acct, disk, mem>>
    /\ \E dir_ok \in BOOLEAN : \E order \in Orders :
          cmd' = [kind |-> "rebuild", pc |-> IF dir_ok THEN "next" ELSE "idle",
                  a |-> cmd.a, todo |-> IF dir_ok THEN order ELSE <<>>,
                  fetched |-> NoneV,
                  result |-> IF dir_ok THEN "running" ELSE "accounts directory"]

\* main.rs 393-394: the iterator loads the next account from its file, or
\* is exhausted (line 407).
RebuildNext ==
    /\ cmd.pc = "next"
    /\ CmdFrame
    /\ UNCHANGED disk
    /\ IF cmd.todo = <<>>
       THEN /\ CmdReturns("ok")
            /\ UNCHANGED acct
       ELSE \E load_ok \in BOOLEAN :
            IF load_ok
            THEN /\ cmd' = [cmd EXCEPT !.pc = "acquire", !.a = Head(cmd.todo),
                                       !.todo = Tail(cmd.todo), !.fetched = NoneV]
                 /\ acct' = Head(cmd.todo)
                 /\ mem' = disk[Head(cmd.todo)]
            ELSE /\ CmdReturns("load failed")
                 /\ UNCHANGED acct

\* accounts.rs 202-208 and 104-116: the hub is made and getStartPageToken is
\* asked; an error of the callback returns before anything is saved.
AcquireRequest ==
    /\ cmd.pc = "acquire"
    /\ CmdFrame
    /\ UNCHANGED <<acct, disk>>
    /\ \/ \E err \in {"http client", "request failed",
                       "server response did not include token"} : CmdReturns(err)
       \/ \E tok \in StartToks :
             /\ cmd' = [cmd EXCEPT !.pc = "hub_save", !.fetched = tok]
             /\ UNCHANGED mem

\* accounts.rs 119-120: with_drive_hub saves account.data as it stands.
AcquireHubSave ==
    /\ cmd.pc = "hub_save"
    /\ CmdFrame
    /\ UNCHANGED acct
    /\ \E io_ok \in BOOLEAN :
          /\ disk' = save_to_json(mem, io_ok)
          /\ IF io_ok
             THEN /\ cmd' = [cmd EXCEPT !.pc = "final_save"]
                  /\ UNCHANGED mem
             ELSE CmdReturns("hub save failed")

\* An acquire_change_page_token whose caller goes on although the save
\* failed.
AcquireFinalSave_goes_on ==
    /\ cmd.pc = "final_save"
    /\ CmdFrame
    /\ UNCHANGED acct
    /\ \E io_ok \in BOOLEAN :
          /\ disk' = save_to_json([mem EXCEPT !.token = cmd.fetched], io_ok)
          /\ cmd' = [cmd EXCEPT !.pc = "import"]
          /\ mem' = [mem EXCEPT !.token = cmd.fetched]

\* accounts.rs 210-212: the token goes into account.data, which is saved;
\* `?` in the caller (main.rs 259, 402) ends the command when that fails.
AcquireFinalSave ==
    /\ cmd.pc = "final_save"
    /\ CmdFrame
    /\ UNCHANGED acct
    /\ \E io_ok \in BOOLEAN :
          /\ disk' = save_to_json([mem EXCEPT !.token = cmd.fetched], io_ok)
          /\ IF io_ok
             THEN /\ cmd' = [cmd EXCEPT !.pc = "import"]
                  /\ mem' = [mem EXCEPT !.token = cmd.fetched]
             ELSE CmdReturns("final save failed")

\* main.rs 263 and 403: import_documents(&mut account) begins.
CmdImport ==
    /\ cmd.pc = "import"
    /\ ImportBeginWith(cmd.a, FALSE, mem)
    /\ cmd' = [cmd EXCEPT !.pc = "importing"]
    /\ UNCHANGED <<opt, drv_pc, drv_todo, drv_result, drv_log>>

\* main.rs 263 and 403: import_documents has returned; `?` passes its error
\* on, login is done, sync --rebuild goes to the next account.
CmdAfterImport ==
    /\ cmd.pc = "importing"
    /\ imp_pc = "idle"
    /\ CmdFrame
    /\ UNCHANGED <<acct, disk>>
    /\ IF imp_result # "ok" THEN CmdReturns(imp_result)
       ELSE IF cmd.kind = "login" THEN CmdReturns("ok")
       ELSE /\ cmd' = [cmd EXCEPT !.pc = "next"]
            /\ UNCHANGED mem

(***************************************************************************)
(* Document specifiers (app.rs 588-796) and the two listings the command   *)
(* line keeps in table listitems.  A text is the sequence of its            *)
(* characters.                                                              *)
(***************************************************************************)
\* database.rs 286 and 290.
CLI_LAST_PRINT_ID == 0

CLI_CWD_ID == 1

\* app.rs 764.
MAX_TO_PRINT == 20

NoCols == [name |-> <<>>, modified_time |-> 0, folder |-> FALSE]

NoCall == [fn |-> "none"]

\* The id of a document as a text.
IdText(id) ==
    CASE id = "r1" -> <<"r", "1">>
      [] id = "r2" -> <<"r", "2">>
      [] id \in DocIds -> <<id>>
      [] OTHER -> <<"f", id>>

HasRow(id) == docs[id] # NoneV

Ok(ids) == [ok |-> TRUE, docs |-> ids, err |-> "none"]

Err(e) == [ok |-> FALSE, docs |-> <<>>, err |-> e]

\* SQLite's LIKE: % matches any run of characters, _ any one character, and
\* ASCII letters match whatever their case.
Lower(c) == CASE c = "D" -> "d" [] c = "X" -> "x" [] OTHER -> c

RECURSIVE Like(_, _)
Like(pattern, text) ==
    IF pattern = <<>> THEN text = <<>>
    ELSE IF Head(pattern) = "%"
         THEN Like(Tail(pattern), text) \/ (text # <<>> /\ Like(pattern, Tail(text)))
    ELSE IF text = <<>> THEN FALSE
    ELSE /\ Head(pattern) = "_" \/ Lower(Head(pattern)) = Lower(Head(text))
         /\ Like(Tail(pattern), Tail(text))

\* str::parse::<i32>: an optional sign and at least one digit; None stands
\* for the ParseIntError.
Digits == <<"0", "1", "2", "3", "4", "5", "6", "7", "8", "9">>

DigitValue(c) == (CHOOSE i \in 1..10 : Digits[i] = c) - 1

RECURSIVE ParseDigits(_, _)
ParseDigits(text, acc) ==
    IF text = <<>> THEN Some(acc)
    ELSE IF Head(text) \notin Range(Digits) THEN NoOpt
    ELSE ParseDigits(Tail(text), 10 * acc + DigitValue(Head(text)))

parse_i32(text) ==
    IF text = <<>> THEN NoOpt
    ELSE IF Head(text) \in {"+", "-"}
         THEN IF Tail(text) = <<>> THEN NoOpt
              ELSE IF Head(text) = "+" THEN ParseDigits(Tail(text), 0)
              ELSE IF IsSome(ParseDigits(Tail(text), 0))
                   THEN Some(0 - Unwrap(ParseDigits(Tail(text), 0)))
                   ELSE NoOpt
    ELSE ParseDigits(text, 0)

\* find_parent_paths (app.rs 517-586) as one function: the for loop over
\* the neighbours of cur, then the while loop over the work list.  `bad`
\* carries a walk along path_data that would hang or panic.
RECURSIVE FppFor(_, _, _, _)
FppFor(ns, cur, q, pd) ==
    IF ns = <<>> THEN [queue |-> q, path_data |-> pd, bad |-> "none"]
    ELSE IF Contains(q, Head(ns)) THEN FppFor(Tail(ns), cur, q, pd)
    ELSE IF found_loop(pd, cur, Head(ns), {}) = "loop" THEN FppFor(Tail(ns), cur, q, pd)
    ELSE IF found_loop(pd, cur, Head(ns), {}) # "clear"
         THEN [queue |-> q, path_data |-> pd, bad |-> found_loop(pd, cur, Head(ns), {})]
    ELSE FppFor(Tail(ns), cur, Append(q, Head(ns)), Insert(pd, Head(ns), cur))

RECURSIVE FppWhile(_, _, _, _)
FppWhile(table, q, pd, res) ==
    IF q = <<>> THEN res
    ELSE LET cur == q[Len(q)]
             path == BuildPath(pd, cur, {})
             is_root == cur \in roots(table)
             st == FppFor(neighbors(table, cur), cur, SubSeq(q, 1, Len(q) - 1), pd)
         IN  IF is_root /\ path # <<>> /\ path[Len(path)] \in {"hang", "panic"}
             THEN << <<path[Len(path)]>> >>
             ELSE IF st.bad # "none" THEN << <<st.bad>> >>
             ELSE FppWhile(table, st.queue, st.path_data,
                           IF is_root THEN Append(res, path) ELSE res)

find_parent_paths(table, start) ==
    IF start \notin table.nodes THEN <<>>
    ELSE FppWhile(table, <<start>>, Insert(EmptyMap, start, NoneV), <<>>)

\* A set as the sequence that lists it by ascending key; the keys differ.
OrderedBy(S, key) ==
    [i \in 1..Cardinality(S) |->
        CHOOSE x \in S : Cardinality({y \in S : key[y] < key[x]}) = i - 1]

Pos(id) == CHOOSE i \in 1..Len(doc_order) : doc_order[i] = id

\* The doc ids of listing l by position, for the rows that join a row of docs.
ListingRows(l) == {r \in listitems : r[1] = l}

ListingDocs(l) ==
    LET rows == OrderedBy(ListingRows(l), [r \in ListingRows(l) |-> r[2]])
    IN  SelectSeq([i \in 1..Len(rows) |-> rows[i][3]], HasRow)

\* database.rs 118-126: Doc::accounts.
accounts_of(id) == {a \in Accounts : <<id, a>> \in assocs}

\* The link rows of account a as load_linkage_table's query yields them.
LinkRowsOf(a) ==
    LET rows == OrderedBy(LinksOf(links, a),
                          [l \in LinksOf(links, a) |->
                              Pos(l[2]) * (Len(doc_order) + 1) + Pos(l[3])])
    IN  [i \in 1..Len(rows) |-> <<rows[i][2], rows[i][3]>>]

\* A variant that takes the outermost folder of every path.
PathParent_takes_root(path) == Head(path)

\* Line 673: id_path.pop().
PathParent(path) == path[Len(path)]

\* Lines 668-680: the ids `..` collects for the CWD document.
ParentIdsVia(a, cwd) ==
    {PathParent(p) :
        p \in {q \in Range(find_parent_paths(load_linkage_table(LinkRowsOf(a), TRUE), cwd)) :
                  q # <<>>}}

ParentIds(cwd) == UNION {ParentIdsVia(a, cwd) : a \in accounts_of(cwd)}

\* Lines 308-316: the unwrap() panics on an id without a row.  The ids come
\* out of a HashSet in an order the program does not fix; the order of the
\* docs table stands for it, and no property below depends on it.
ids_to_docs(ids) ==
    IF \E id \in ids : id \notin DOMAIN docs \/ ~HasRow(id)
    THEN Err("panic")
    ELSE Ok(SelectSeq(doc_order, LAMBDA id : id \in ids))

\* Lines 713-716: the rows of docs whose name is LIKE %spec%, in the order
\* the query yields them.
NameLike(spec) ==
    SelectSeq(doc_order,
              LAMBDA id : HasRow(id) /\ Like(<<"%">> \o spec \o <<"%">>, doc_cols[id].name))

\* A CWD reference that finds nothing and says so with an empty list.
CwdMatches_empty_ok == Ok(ListingDocs(CLI_CWD_ID))

\* Lines 641-656: the documents of the rows in the CWD slot.
CwdMatches ==
    IF ListingDocs(CLI_CWD_ID) = <<>>
    THEN Err("the virtual CWD is not currently defined")
    ELSE Ok(ListingDocs(CLI_CWD_ID))

\* A recent-document reference that counts from zero.
RecentIndex_zero_based(number) == number

\* Line 691: the number after % is 1-based, the position 0-based.
RecentIndex(number) == number - 1

\* A resolution that goes to the names first.
process_impl_names_first(spec) ==
    IF NameLike(spec) # <<>> THEN Ok(NameLike(spec))
    ELSE IF \E id \in DOMAIN docs : HasRow(id) /\ IdText(id) = spec
    THEN Ok(<<CHOOSE id \in DOMAIN docs : HasRow(id) /\ IdText(id) = spec>>)
    ELSE Err("none")

\* Lines 625-718.
RECURSIVE process_impl(_)
process_impl(spec) ==
    IF \E id \in DOMAIN docs : HasRow(id) /\ IdText(id) = spec
    THEN Ok(<<CHOOSE id \in DOMAIN docs : HasRow(id) /\ IdText(id) = spec>>)
    ELSE IF spec = <<".">> THEN CwdMatches
    ELSE IF spec = <<".", ".">>
    THEN LET cwd == process_impl(<<".">>)
         IN  IF ~cwd.ok THEN cwd
             ELSE IF cwd.docs = <<>> THEN Err("panic")
             ELSE ids_to_docs(ParentIds(cwd.docs[Len(cwd.docs)]))
    ELSE IF spec # <<>> /\ Head(spec) = "%"
    THEN LET index == parse_i32(Tail(spec))
             rows == {r \in ListingRows(CLI_LAST_PRINT_ID) :
                         r[2] = RecentIndex(Unwrap(index))}
         IN  IF index = NoOpt THEN Err("invalid digit found in string")
             ELSE IF rows = {} THEN Err("not a valid recent-document reference")
             ELSE IF ~HasRow((CHOOSE r \in rows : TRUE)[3]) THEN Err("NotFound")
             ELSE Ok(<<(CHOOSE r \in rows : TRUE)[3]>>)
    ELSE Ok(NameLike(spec))

\* slice::sort_by_key is stable: equal keys keep their order.  rank[j] is
\* the number of elements that come before s[j].
sort_by_key(s) ==
    LET rank == [j \in 1..Len(s) |->
                    Cardinality({k \in 1..Len(s) :
                        \/ doc_cols[s[k]].modified_time < doc_cols[s[j]].modified_time
                        \/ /\ doc_cols[s[k]].modified_time = doc_cols[s[j]].modified_time
                           /\ k < j})]
    IN  [i \in 1..Len(s) |-> s[CHOOSE j \in 1..Len(s) : rank[j] = i - 1]]

\* A process that returns the matches as the query yielded them.
process_unsorted(spec, zero_ok) ==
    LET r == process_impl(spec)
    IN  IF ~r.ok THEN r
        ELSE IF ~zero_ok /\ Len(r.docs) = 0
        THEN Err("no documents matched the specification")
        ELSE Ok(r.docs)

\* Lines 721-738.
process(spec, zero_ok) ==
    LET r == process_impl(spec)
    IN  IF ~r.ok THEN r
        ELSE IF ~zero_ok /\ Len(r.docs) = 0
        THEN Err("no documents matched the specification")
        ELSE Ok(Reverse(sort_by_key(r.docs)))

\* A print_doc_list that inserts its rows and deletes none.
print_doc_list_keeps_rows(list, fail_at) ==
    [ok |-> TRUE,
     listitems |-> listitems
                   \cup {<<CLI_LAST_PRINT_ID, i - 1, list[i]>> : i \in 1..Len(list)}]

\* Lines 346-374: print_doc_list puts the list into listing CLI_LAST_PRINT_ID
\* before it prints it; the delete (fail_at = 1) or the insert (2) may fail.
print_doc_list(list, fail_at) ==
    IF list = <<>> THEN [ok |-> TRUE, listitems |-> listitems]
    ELSE IF fail_at = 1 THEN [ok |-> FALSE, listitems |-> listitems]
    ELSE IF fail_at = 2
    THEN [ok |-> FALSE, listitems |-> listitems \ ListingRows(CLI_LAST_PRINT_ID)]
    ELSE [ok |-> TRUE,
          listitems |-> (listitems \ ListingRows(CLI_LAST_PRINT_ID))
                        \cup {<<CLI_LAST_PRINT_ID, i - 1, list[i]>> : i \in 1..Len(list)}]

\* A listing that is cut one document short of the limit.
Truncated_one_short(r) ==
    IF Len(r) > MAX_TO_PRINT THEN SubSeq(r, 1, MAX_TO_PRINT - 1) ELSE r

\* Lines 763-769: r.truncate(MAX_TO_PRINT) when r is longer.
Truncated(r) ==
    IF Len(r) > MAX_TO_PRINT THEN SubSeq(r, 1, MAX_TO_PRINT) ELSE r

\* What the command line leaves alone of the rest.
CliFrame == UNCHANGED <<pvars, dbvars, svars, ivars, dvars, doc_cols, doc_order>>

\* app.get_docs().zero_ok(z).process(spec), as the info and list commands
\* call it (main.rs 95 and 183).
Process(spec, zero_ok) ==
    /\ cli' = [fn |-> "process", spec |-> spec, zero_ok |-> zero_ok,
               matched |-> process_impl(spec), ret |-> process(spec, zero_ok),
               listing |-> <<>>, printed |-> FALSE,
                          before |-> listitems]
    /\ UNCHANGED listitems
    /\ CliFrame

\* A process_one that takes a single match for an ambiguous one as well.
ProcessOne_lists_single(spec, zero_ok) ==
    /\ \E r \in {process_impl(spec)} :
          IF ~r.ok \/ Len(r.docs) < 1
          THEN /\ cli' = [fn |-> "process_one", spec |-> spec, zero_ok |-> zero_ok,
                          matched |-> r,
                          ret |-> IF ~r.ok THEN r
                                  ELSE IF Len(r.docs) = 0
                                  THEN Err("no documents matched the specification")
                                  ELSE Ok(r.docs),
                          listing |-> <<>>, printed |-> FALSE,
                          before |-> listitems]
               /\ UNCHANGED listitems
          ELSE \E fail_at \in 0..2 :
               \E p \in {print_doc_list(Truncated(r.docs), fail_at)} :
               /\ cli' = [fn |-> "process_one", spec |-> spec, zero_ok |-> zero_ok,
                          matched |-> r,
                          ret |-> Err("specification should have matched exactly one document"),
                          listing |-> Truncated(r.docs), printed |-> p.ok,
                          before |-> listitems]
               /\ listitems' = p.listitems
    /\ CliFrame

\* Lines 745-787, as the ls and open commands call it (main.rs 286, 345);
\* the builder's zero_ok is whatever the caller set and nothing reads it.
ProcessOne(spec, zero_ok) ==
    /\ \E r \in {process_impl(spec)} :
          IF ~r.ok \/ Len(r.docs) < 2
          THEN /\ cli' = [fn |-> "process_one", spec |-> spec, zero_ok |-> zero_ok,
                          matched |-> r,
                          ret |-> IF ~r.ok THEN r
                                  ELSE IF Len(r.docs) = 0
                                  THEN Err("no documents matched the specification")
                                  ELSE Ok(r.docs),
                          listing |-> <<>>, printed |-> FALSE,
                          before |-> listitems]
               /\ UNCHANGED listitems
          ELSE \E fail_at \in 0..2 :
               \E p \in {print_doc_list(Truncated(r.docs), fail_at)} :
               /\ cli' = [fn |-> "process_one", spec |-> spec, zero_ok |-> zero_ok,
                          matched |-> r,
                          ret |-> Err("specification should have matched exactly one document"),
                          listing |-> Truncated(r.docs), printed |-> p.ok,
                          before |-> listitems]
               /\ listitems' = p.listitems
    /\ CliFrame

\* main.rs 186: the list command prints what process returned.
PrintDocList ==
    /\ cli.fn = "process"
    /\ cli.ret.ok
    /\ \E fail_at \in 0..2 :
       \E p \in {print_doc_list(cli.ret.docs, fail_at)} :
          /\ cli' = [fn |-> "print_doc_list", spec |-> cli.spec, zero_ok |-> cli.zero_ok,
                     matched |-> cli.matched, ret |-> cli.ret,
                     listing |-> cli.ret.docs, printed |-> p.ok,
                          before |-> listitems]
          /\ listitems' = p.listitems
    /\ CliFrame

\* A set_cwd that adds its row at the next free position.
SetCwdRows_appends(rows, doc) ==
    rows \cup {<<CLI_CWD_ID, Cardinality({r \in rows : r[1] = CLI_CWD_ID}), doc>>}

\* Lines 333-338: the rows after the delete and the insert.
SetCwdRows(rows, doc) ==
    {r \in rows : r[1] # CLI_CWD_ID} \cup {<<CLI_CWD_ID, 0, doc>>}

\* Lines 321-341, on the document process_one returned (main.rs 286-328):
\* the delete (fail_at = 1) or the insert (2) may fail.
SetCwd ==
    /\ cli.fn = "process_one"
    /\ cli.ret.ok
    /\ \E doc \in {cli.ret.docs[1]} :
          IF ~doc_cols[doc].folder
          THEN /\ cli' = [fn |-> "set_cwd", spec |-> cli.spec, zero_ok |-> cli.zero_ok,
                          matched |-> cli.matched,
                          ret |-> Err("cannot set virtual CWD to non-folder"),
                          listing |-> <<>>, printed |-> FALSE,
                          before |-> listitems]
               /\ UNCHANGED listitems
          ELSE \E fail_at \in 0..2 :
               /\ cli' = [fn |-> "set_cwd", spec |-> cli.spec, zero_ok |-> cli.zero_ok,
                          matched |-> cli.matched,
                          ret |-> IF fail_at = 0 THEN Ok(<<doc>>) ELSE Err("database"),
                          listing |-> <<>>, printed |-> FALSE,
                          before |-> listitems]
               /\ listitems' =
                     IF fail_at = 1 THEN listitems
                     ELSE IF fail_at = 2 THEN listitems \ ListingRows(CLI_CWD_ID)
                     ELSE SetCwdRows(listitems, doc)
    /\ CliFrame

\* An account's file either holds the start token login stored, or none: the
\* file of an account whose login stopped before acquire_change_page_token
\* has no token.
InitDb ==
    /\ docs = [d \in AllIds |-> NoneV]
    /\ assocs = {}
    /\ links = {}

InitSyncIdle ==
    /\ acct = 1
    /\ mem = NoAccountData
    /\ tok_cell = NoneV
    /\ cur_page = NoOpt
    /\ finished = FALSE
    /\ final_page = FALSE
    /\ sync_pc = "idle"
    /\ sync_result = "none"
    /\ page_no = 0
    /\ n_changes = 0
    /\ hist = InitHist

InitImportIdle ==
    /\ imp_pc = "idle"
    /\ imp_listing = <<>>
    /\ imp_rest = <<>>
    /\ imp_result = "none"
    /\ imp_base = NoOpt
    /\ n_files = 0
    /\ clock = 0

InitDriverIdle ==
    /\ opt = "Auto"
    /\ drv_pc = "idle"
    /\ drv_todo = <<>>
    /\ drv_result = "none"
    /\ drv_log = <<>>
    /\ cmd = NoCmd

InitCliIdle ==
    /\ doc_cols = [d \in AllIds |-> NoCols]
    /\ doc_order = <<>>
    /\ listitems = {}
    /\ cli = NoCall

InitPathVars ==
    /\ link_rows = <<>>
    /\ start_id = NoneV
    /\ queue = <<>>
    /\ path_data = EmptyMap
    /\ results = <<>>
    /\ cur_ix = NoneV
    /\ nbrs = <<>>
    /\ fpp_pc = "idle"
    /\ walk = NoWalk

Init ==
    /\ InitPathVars
    /\ InitDb
    /\ InitSyncIdle
    /\ InitImportIdle
    /\ InitDriverIdle
    /\ InitCliIdle
    /\ disk \in [Accounts -> [token : {NoneV, StartTok0}, cred : {"c0"},
                              root : {NoneV}, last_sync : {NoOpt}]]

Next ==
    \/ \E a \in Accounts : SyncBegin(a)
    \/ SyncYield
    \/ SyncRequest
    \/ SyncWalkDone
    \/ HubSave
    \/ FinalSave

Spec == Init /\ [][Next]_vars

\* The orders in which the query of load_linkage_table may yield the link
\* rows of account a, each row as <<parent_id, child_id>>.
RowOrders(a) ==
    LET S == {<<l[2], l[3]>> : l \in LinksOf(links, a)}
    IN  {s \in [1..Cardinality(S) -> S] : NoDup(s)}

\* The path search on its own: every account has logged in, nothing syncs.
InitPaths ==
    /\ InitPathVars
    /\ InitDb
    /\ InitSyncIdle
    /\ InitImportIdle
    /\ InitDriverIdle
    /\ InitCliIdle
    /\ disk = [a \in Accounts |-> [NoAccountData EXCEPT !.token = StartTok0]]

NextPaths == LoadTable \/ FppBegin \/ FppPop \/ FppNeighbor \/ FppForEnd \/ FppReturn

SpecPaths == InitPaths /\ [][NextPaths]_vars

SpecPathsFair == SpecPaths /\ WF_vars(NextPaths)

(***************************************************************************)
(* The for loop of sync_account (app.rs 174-252) over a given feed: a pass *)
(* that is cut short, and the pass that starts over from the old token and *)
(* receives the feed from its beginning.                                   *)
(***************************************************************************)
\* The longest feed replayed.
MaxFeed == 3

\* The change records of the feeds replayed: a record without file_id,
\* removals, updates that differ in metadata and parents, and a record
\* without file payload.
ReplayChanges ==
    {[file_id |-> NoneV, removed |-> NoOpt, file |-> NoOpt],
     [file_id |-> "d", removed |-> Some(TRUE), file |-> NoOpt],
     [file_id |-> "e", removed |-> Some(TRUE), file |-> NoOpt],
     [file_id |-> "d", removed |-> NoOpt, file |-> NoOpt]}
    \cup
    {[file_id |-> f.id, removed |-> NoOpt, file |-> Some(f)] : f \in
        {[id |-> "d", meta |-> "m1", mtime_ok |-> TRUE, parents |-> Some(<<"e">>)],
         [id |-> "d", meta |-> "m2", mtime_ok |-> TRUE, parents |-> NoOpt],
         [id |-> "e", meta |-> "m1", mtime_ok |-> TRUE, parents |-> Some(<<"d">>)],
         [id |-> "e", meta |-> "m2", mtime_ok |-> TRUE, parents |-> Some(<<"d", "e">>)]}}

\* The stores a pass may find: nothing, or rows of both accounts.
StartDbs ==
    {[docs |-> [x \in AllIds |-> NoneV], assocs |-> {}, links |-> {}],
     [docs |-> [x \in AllIds |-> IF x \in DocIds THEN "m1" ELSE NoneV],
      assocs |-> {<<"d", 1>>, <<"d", 2>>, <<"e", 2>>},
      links |-> {<<1, "e", "d">>, <<2, "e", "d">>, <<1, "d", "e">>}]}

\* The loop stops at this record with an error (lines 216-225).
StopsPass(a, change) == HandleChange(a, change).kind \in {"no_file", "bad_file"}

\* Lines 174-252: the for loop over the records i.. of the feed; every
\* statement succeeds, and a record that makes the loop return an error
\* ends it.
RECURSIVE ApplyFeed(_, _, _, _)
ApplyFeed(db, a, feed, i) ==
    IF i > Len(feed) THEN db
    ELSE IF StopsPass(a, feed[i]) THEN db
    ELSE LET stmts == HandleChange(a, feed[i]).stmts
         IN  ApplyFeed(ExecAll(db, stmts, Len(stmts)), a, feed, i + 1)

\* The store when the pass is cut short in record k after n of its
\* statements: a failing statement, a failing page request, or the end of
\* the process.
CutShort(db, a, feed, k, n) ==
    ExecAll(ApplyFeed(db, a, SubSeq(feed, 1, k - 1), 1),
            HandleChange(a, feed[k]).stmts, n)

\* A pass of account 1 over a feed is cut short.  Here hist is the record
\* of the replay: the feed, the store the pass found and where it was cut.
ReplayCut ==
    /\ sync_pc = "idle"
    /\ imp_pc = "idle"
    /\ \E start \in StartDbs : \E feed \in SeqsUpTo(ReplayChanges, MaxFeed) :
       \E k \in 1..Len(feed) :
       \E n \in 0..Len(HandleChange(1, feed[k]).stmts) :
       \E db \in {CutShort(start, 1, feed, k, n)} :
          /\ \A j \in 1..(k - 1) : ~StopsPass(1, feed[j])
          /\ docs' = db.docs
          /\ assocs' = db.assocs
          /\ links' = db.links
          /\ hist' = [feed |-> feed, start |-> start, k |-> k, n |-> n, cut |-> db]
    /\ sync_pc' = "cut"
    /\ UNCHANGED <<pvars, xvars, disk, acct, mem, tok_cell, cur_page, finished,
                   final_page, sync_result, page_no, n_changes>>

\* The token in the account's file is the old one (the pass did not
\* complete), so the next pass receives the same feed from its beginning.
ReplayWhole ==
    /\ sync_pc = "cut"
    /\ \E db \in {ApplyFeed(TheDb, 1, hist.feed, 1)} :
          /\ docs' = db.docs
          /\ assocs' = db.assocs
          /\ links' = db.links
    /\ sync_pc' = "replayed"
    /\ UNCHANGED <<pvars, xvars, disk, acct, mem, tok_cell, cur_page, finished,
                   final_page, sync_result, page_no, n_changes, hist>>

\* A pass cut short and the pass that replays its feed.
NextReplay == ReplayCut \/ ReplayWhole

SpecReplay == InitPaths /\ [][NextReplay]_vars

\* One paging iterator of either kind, called up to MaxCalls times.
NextIter == (\E kind \in {"changes", "files"} : IterNew(kind)) \/ ListingCall

SpecIter == InitPaths /\ [][NextIter]_vars

NextWidePaths ==
    LoadWideTable \/ FppBegin \/ FppPop \/ FppNeighbor \/ FppForEnd \/ FppReturn

SpecWidePaths == InitPaths /\ [][NextWidePaths]_vars

NextDagPaths ==
    LoadDagTable \/ FppBegin \/ FppPop \/ FppNeighbor \/ FppForEnd \/ FppReturn

SpecDagPaths == InitPaths /\ [][NextDagPaths]_vars

\* Imports on their own: every account has logged in and is imported any
\* number of times, each time against what its remote listing then holds.
NextImport ==
    \/ \E a \in Accounts, again \in BOOLEAN : ImportBegin(a, again)
    \/ ImportFile
    \/ ImportHubSave
    \/ ImportFinalSave

SpecImport == InitPaths /\ [][NextImport]_vars

\* Account 1 on its own: imports that between them list two files and sync
\* passes that between them receive one change record, in any order.  With
\* one record to deliver no page holds a second one, and SyncRequest hands
\* the first record of a page to the loop body itself: SyncYield is never
\* enabled and is left out.
InitImportSync ==
    /\ InitPathVars
    /\ InitDb
    /\ acct = 1
    /\ mem = NoAccountData
    /\ tok_cell = NoneV
    /\ cur_page = NoOpt
    /\ finished = FALSE
    /\ final_page = FALSE
    /\ sync_pc = "idle"
    /\ sync_result = "none"
    /\ page_no = 0
    /\ hist = InitHist
    /\ imp_pc = "idle"
    /\ imp_listing = <<>>
    /\ imp_rest = <<>>
    /\ imp_result = "none"
    /\ imp_base = NoOpt
    /\ n_files = MaxListed - 2
    /\ n_changes = MaxChanges - 1
    /\ clock = 0
    /\ InitDriverIdle
    /\ InitCliIdle
    /\ disk = [a \in Accounts |-> [NoAccountData EXCEPT !.token = StartTok0]]

NextImportSync ==
    \/ ImportBegin(1, FALSE)
    \/ ImportFile
    \/ ImportHubSave
    \/ ImportFinalSave
    \/ SyncBegin(1)
    \/ SyncRequest
    \/ SyncWalkDone
    \/ HubSave
    \/ FinalSave

SpecImportSync == InitImportSync /\ [][NextImportSync]_vars

\* Two accounts on one store: imports of either account that between them
\* list one file and sync passes of account 1 that between them receive one
\* change record, in any order.  The accounts differ in their root folder
\* only, so that account 1 stands for the account that syncs.
InitStore ==
    /\ InitPathVars
    /\ InitDb
    /\ acct = 1
    /\ mem = NoAccountData
    /\ tok_cell = NoneV
    /\ cur_page = NoOpt
    /\ finished = FALSE
    /\ final_page = FALSE
    /\ sync_pc = "idle"
    /\ sync_result = "none"
    /\ page_no = 0
    /\ imp_pc = "idle"
    /\ imp_listing = <<>>
    /\ imp_rest = <<>>
    /\ imp_result = "none"
    /\ imp_base = NoOpt
    /\ n_files = MaxListed - 1
    /\ n_changes = MaxChanges - 1
    /\ clock = 0
    /\ hist = InitHist
    /\ InitDriverIdle
    /\ InitCliIdle
    /\ disk = [a \in Accounts |-> [NoAccountData EXCEPT !.token = StartTok0]]

NextStore ==
    \/ \E a \in Accounts : ImportBegin(a, FALSE)
    \/ ImportFile
    \/ ImportHubSave
    \/ ImportFinalSave
    \/ SyncBegin(1)
    \/ SyncRequest
    \/ SyncWalkDone
    \/ HubSave
    \/ FinalSave

SpecStore == InitStore /\ [][NextStore]_vars

\* Calls of maybe_sync_all_accounts under any option, with time passing
\* between them; the passes between them receive one change record, so that
\* SyncYield is never enabled and is left out.
InitDriver ==
    /\ InitPathVars
    /\ InitDb
    /\ acct = 1
    /\ mem = NoAccountData
    /\ tok_cell = NoneV
    /\ cur_page = NoOpt
    /\ finished = FALSE
    /\ final_page = FALSE
    /\ sync_pc = "idle"
    /\ sync_result = "none"
    /\ page_no = 0
    /\ hist = InitHist
    /\ n_changes = MaxChanges - 1
    /\ InitImportIdle
    /\ InitDriverIdle
    /\ InitCliIdle
    /\ disk = [a \in Accounts |-> [NoAccountData EXCEPT !.token = StartTok0]]

NextDriver ==
    \/ \E o \in SyncOptions : DrvBegin(o)
    \/ DrvStep
    \/ DrvAfter
    \/ Tick
    \/ SyncRequest
    \/ SyncWalkDone
    \/ HubSave
    \/ FinalSave

SpecDriver == InitDriver /\ [][NextDriver]_vars

\* login and sync --rebuild, in any order, on accounts that have a file
\* with or without a token; the listings of their imports hold one file
\* between them.
InitLogin ==
    /\ InitPathVars
    /\ InitDb
    /\ InitSyncIdle
    /\ imp_pc = "idle"
    /\ imp_listing = <<>>
    /\ imp_rest = <<>>
    /\ imp_result = "none"
    /\ imp_base = NoOpt
    /\ n_files = MaxListed - 1
    /\ clock = 0
    /\ InitDriverIdle
    /\ InitCliIdle
    /\ disk \in [Accounts -> [token : {NoneV, StartTok0}, cred : {"c0"},
                              root : {NoneV}, last_sync : {NoOpt}]]

NextLogin ==
    \/ \E a \in Accounts : LoginBegin(a)
    \/ RebuildBegin
    \/ RebuildNext
    \/ AcquireRequest
    \/ AcquireHubSave
    \/ AcquireFinalSave
    \/ CmdImport
    \/ CmdAfterImport
    \/ ImportFile
    \/ ImportHubSave
    \/ ImportFinalSave

SpecLogin == InitLogin /\ [][NextLogin]_vars

\* The command line on a store that imports and sync passes have filled:
\* the two roots, folder d under r1 and document e under d, whose name
\* varies.
BulkIds ==
    <<"01", "02", "03", "04", "05", "06", "07", "08", "09", "10", "11", "12",
      "13", "14", "15", "16", "17", "18", "19", "20", "21", "22", "23", "24">>

\* The longest run of further documents of one name.
MaxBulk == 20

CliIds(n) == AllIds \cup {BulkIds[i] : i \in 1..n}

BaseOrder(n) == <<"d", "e", "r1", "r2">> \o SubSeq(BulkIds, 1, n)

ENames == {<<"e">>, <<"d">>, <<"X", "d">>}

ColsOf(id, e_name, e_folder) ==
    CASE id = "d" -> [name |-> <<"x">>, modified_time |-> 1, folder |-> TRUE]
      [] id = "e" -> [name |-> e_name, modified_time |-> 1, folder |-> e_folder]
      [] id = "r1" -> [name |-> <<"r">>, modified_time |-> 3, folder |-> TRUE]
      [] id = "r2" -> [name |-> <<"r">>, modified_time |-> 0, folder |-> TRUE]
      [] OTHER -> [name |-> <<"x">>,
                   modified_time |-> IF id \in {"02", "05", "21"} THEN 2 ELSE 1,
                   folder |-> FALSE]

Specs ==
    {<<".">>, <<".", ".">>, <<"%", "1">>, <<"%", "2">>, <<"%", "0">>, <<"%", "x">>,
     <<"d">>, <<"x">>, <<"r">>, <<"r", "1">>, <<"z">>}

InitCliRest ==
    /\ InitPathVars
    /\ InitSyncIdle
    /\ InitImportIdle
    /\ InitDriverIdle
    /\ disk = [a \in Accounts |-> [NoAccountData EXCEPT !.token = StartTok0]]
    /\ listitems = {}
    /\ cli = NoCall

InitCli ==
    /\ InitCliRest
    /\ \E d_here \in BOOLEAN, e_name \in ENames, reversed \in BOOLEAN :
          /\ docs = [id \in AllIds |-> IF id = "d" /\ ~d_here THEN NoneV ELSE "m1"]
          /\ doc_cols = [id \in AllIds |-> ColsOf(id, e_name, FALSE)]
          /\ assocs = {<<"r1", 1>>, <<"r2", 2>>, <<"e", 1>>}
                         \cup (IF d_here THEN {<<"d", 1>>} ELSE {})
          /\ links = {<<1, "r1", "d">>, <<1, "d", "e">>}
          /\ doc_order = IF reversed THEN Reverse(BaseOrder(0)) ELSE BaseOrder(0)

NextCli ==
    \/ \E spec \in Specs, zero_ok \in BOOLEAN : Process(spec, zero_ok)
    \/ \E spec \in Specs, zero_ok \in BOOLEAN : ProcessOne(spec, zero_ok)
    \/ PrintDocList
    \/ SetCwd

SpecCli == InitCli /\ [][NextCli]_vars

\* The same store with a run of further documents named like d, so that a
\* name matches about MAX_TO_PRINT documents.
BulkSpecs == {<<"x">>, <<"z">>, <<"f", "01">>, <<"%", "2">>}

InitBulk ==
    /\ InitCliRest
    /\ \E n \in (MAX_TO_PRINT - 2)..MaxBulk, reversed \in BOOLEAN :
          /\ docs = [id \in CliIds(n) |-> "m1"]
          /\ doc_cols = [id \in CliIds(n) |-> ColsOf(id, <<"e">>, FALSE)]
          /\ assocs = {<<"r1", 1>>, <<"r2", 2>>, <<"e", 1>>, <<"d", 1>>}
                         \cup {<<BulkIds[i], 1>> : i \in 1..n}
          /\ links = {<<1, "r1", "d">>, <<1, "d", "e">>}
          /\ doc_order = IF reversed THEN Reverse(BaseOrder(n)) ELSE BaseOrder(n)

NextBulk ==
    \/ \E spec \in BulkSpecs, zero_ok \in BOOLEAN : Process(spec, zero_ok)
    \/ \E spec \in BulkSpecs, zero_ok \in BOOLEAN : ProcessOne(spec, zero_ok)
    \/ PrintDocList
    \/ SetCwd

SpecBulk == InitBulk /\ [][NextBulk]_vars

\* The virtual CWD in a tree of folders: d is seen by one or both accounts,
\* and which folders hold which varies.
LinkCands ==
    {<<1, "r1", "e">>, <<1, "r2", "e">>, <<1, "e", "d">>, <<2, "e", "d">>,
     <<2, "d", "r1">>}

CwdSpecs == {<<"d">>, <<"e">>, <<".">>, <<".", ".">>}

InitCwd ==
    /\ InitCliRest
    /\ \E d_accts \in (SUBSET Accounts) \ {{}}, ls \in SUBSET LinkCands :
          /\ docs = [id \in AllIds |-> "m1"]
          /\ doc_cols = [id \in AllIds |-> ColsOf(id, <<"e">>, TRUE)]
          /\ assocs = {<<"r1", 1>>, <<"r2", 1>>, <<"r2", 2>>, <<"e", 1>>}
                         \cup {<<"d", a>> : a \in d_accts}
          /\ links = ls
          /\ doc_order = BaseOrder(0)

NextCwd ==
    \/ \E spec \in CwdSpecs, zero_ok \in BOOLEAN : Process(spec, zero_ok)
    \/ \E spec \in CwdSpecs, zero_ok \in BOOLEAN : ProcessOne(spec, zero_ok)
    \/ SetCwd

SpecCwd == InitCwd /\ [][NextCwd]_vars

(***************************************************************************)
(* Properties of find_parent_paths.                                         *)
(***************************************************************************)
IsParentOf(p, c) == Contains(link_rows, <<p, c>>)

IsRoot(n) == n \in GraphNodes(link_rows) /\ \A p \in GraphIds : ~IsParentOf(p, n)

\* C1: on every finite transposed graph, cycles, self-loops and multi-parent
\* nodes included, and for every start id, find_parent_paths terminates: the
\* work list becomes empty and the call returns.
C1_Terminates == <>(fpp_pc = "done" /\ queue = <<>>)

\* A call has returned after walking a graph that holds a cycle reachable
\* from the start node.
C1_Witness ==
    /\ fpp_pc = "done"
    /\ \E x \in GraphIds \ {start_id} :
          /\ IsParentOf(x, start_id)
          /\ \E y \in GraphIds : IsParentOf(y, x) /\ IsParentOf(x, y)

SimpleAncestorChain(p) ==
    /\ ~Contains(p, start_id)
    /\ NoDup(p)
    /\ p = <<>> => IsRoot(start_id)
    /\ p # <<>> =>
          /\ IsRoot(p[1])
          /\ \A j \in 1..(Len(p) - 1) : IsParentOf(p[j], p[j + 1])
          /\ IsParentOf(p[Len(p)], start_id)

\* C2: every path returned by find_parent_paths is a simple ancestor chain:
\* it leaves out the start, repeats no id, starts at a root, steps from each
\* element to a child of it, and ends at a direct parent of the start.
C2_PathsAreSimpleChains ==
    \A i \in 1..Len(results) : SimpleAncestorChain(results[i])

\* A returned path of two folders in a graph that has a cycle.
C2_Witness ==
    /\ fpp_pc = "done"
    /\ \E i \in 1..Len(results) : Len(results[i]) = 2
    /\ \E x, y \in GraphIds : IsParentOf(y, x) /\ IsParentOf(x, y)

\* The non-repeating chains start, p1, ..., pk (each the parent of the one
\* before, pk a root), written outermost first with the start left out.
SimpleChainsToRoot ==
    {Reverse(c) : c \in
        {c \in SeqsUpTo(GraphIds \ {start_id}, Cardinality(GraphIds) - 1) :
            /\ NoDup(c)
            /\ start_id \in GraphNodes(link_rows)
            /\ IF c = <<>> THEN IsRoot(start_id)
               ELSE /\ IsParentOf(c[1], start_id)
                    /\ \A j \in 1..(Len(c) - 1) : IsParentOf(c[j + 1], c[j])
                    /\ IsRoot(c[Len(c)])}}

\* C3: find_parent_paths returns every simple chain from the start up to a
\* root, whatever the order of the link rows.
C3_AllSimplePaths ==
    fpp_pc = "done" => \A c \in SimpleChainsToRoot : Contains(results, c)

(***************************************************************************)
(* Properties of sync_account.                                             *)
(***************************************************************************)
\* The step hands one change record to the loop body.
Applies == hist'.applied = hist.applied + 1

\* C4: after a record with removed = true for id d has been applied under
\* account A, no Link row of A has d as parent or child, there is no
\* AccountAssociation row (d, A) and no Document row d.
C4_RemovalLeavesNothing ==
    (hist.last.kind = "removed" /\ hist.last.ok) =>
        /\ \A l \in LinksOf(links, acct) :
              l[2] # hist.last.id /\ l[3] # hist.last.id
        /\ <<hist.last.id, acct>> \notin assocs
        /\ docs[hist.last.id] = NoneV

\* A removal has been applied to an id that an update earlier in the same
\* pass had stored.
C4_Witness ==
    /\ hist.last.kind = "removed"
    /\ hist.last.ok
    /\ hist.kinds[hist.last.id] = "upd,rem"

\* C5 as stated: after an update of d with parent list P under account A has
\* been applied, the Link rows of A with child d are exactly (A, p, d) for p
\* in P, and the Link rows of A in which d is the parent are unchanged.
C5_ParentRowsUnchanged ==
    [][(Applies /\ hist'.last.kind = "update" /\ hist'.last.ok) =>
          /\ {l \in LinksOf(links', acct) : l[3] = hist'.last.id}
                = {<<acct, p, hist'.last.id>> : p \in hist'.last.parents}
          /\ {l \in LinksOf(links', acct) : l[2] = hist'.last.id}
                = {l \in LinksOf(links, acct) : l[2] = hist'.last.id}]_vars

\* C5, amended: after an update of d with parent list P under account A has
\* been applied, the Link rows of A with child d are exactly (A, p, d) for p
\* in P, and the Link rows of A in which d is the parent of another id are
\* unchanged.
C5_InboundLinksReplaced ==
    [][(Applies /\ hist'.last.kind = "update" /\ hist'.last.ok) =>
          /\ {l \in LinksOf(links', acct) : l[3] = hist'.last.id}
                = {<<acct, p, hist'.last.id>> : p \in hist'.last.parents}
          /\ {l \in LinksOf(links', acct) :
                  l[2] = hist'.last.id /\ l[3] # hist'.last.id}
                = {l \in LinksOf(links, acct) :
                      l[2] = hist'.last.id /\ l[3] # hist'.last.id}]_vars

\* An update of d has been applied as the second record of a pass, d being
\* the parent of the other id at that time.
C5_Witness ==
    /\ hist.last.kind = "update"
    /\ hist.last.ok
    /\ hist.applied = 2
    /\ hist.last.parents # {}
    /\ \E l \in LinksOf(links, acct) :
          l[2] = hist.last.id /\ l[3] # hist.last.id

\* C6: a record without file_id changes no Document, AccountAssociation or
\* Link row, raises no error, and the pass goes on to the next record,
\* whatever the record's removed flag and file payload.
C6_NoFileIdIsNoOp ==
    [][(Applies /\ hist'.last.kind = "skip") =>
          /\ UNCHANGED dbvars
          /\ hist'.last.ok
          /\ sync_pc' = "walk"
          /\ sync_result' = "running"]_vars

\* A record without file_id, marked removed and carrying a file payload, has
\* been handled while the store held rows.
C6_Witness ==
    /\ hist.last.kind = "skip"
    /\ hist.last.removed = Some(TRUE)
    /\ hist.last.has_file
    /\ assocs # {}
    /\ sync_pc = "walk"

WalkErrors ==
    {"request failed", "neither token", "no changes returned", "empty page",
     "no file information", "bad file object", "database"}

\* C7: while the walk runs, and after a page request or the handling of a
\* record has failed, the account's file holds the token the pass started
\* from; the file holds another token only once every record the walk
\* received has been applied.
C7_TokenKeptOnFailure ==
    /\ sync_pc = "walk" => disk[acct].token = hist.tok0
    /\ sync_result \in WalkErrors => disk[acct].token = hist.tok0
    /\ (hist.tok0 # NoneV /\ disk[acct].token # hist.tok0) =>
          /\ sync_pc \in {"final_save", "idle"}
          /\ sync_result \notin WalkErrors
          /\ hist.applied = hist.fed

\* The request for the second page has failed after a record of the first
\* page had been applied.
C7_Witness ==
    /\ sync_result = "request failed"
    /\ hist.applied > 0
    /\ hist.reqs = 2

\* C8: during a pass the file of an account that had a token never holds an
\* account record without one.
C8_TokenNeverAbsent ==
    hist.tok0 # NoneV => disk[acct].token # NoneV

\* C9: sync_account on an account without a stored token returns the error
\* "no change-paging token", issues no request, changes no store row and
\* does not write the account's file.
C9_NoTokenNoPass ==
    [][(sync_pc = "idle" /\ disk[acct'].token = NoneV) =>
          /\ sync_pc' = "idle"
          /\ sync_result' = "no change-paging token"
          /\ hist'.reqs = 0
          /\ hist'.applied = 0
          /\ UNCHANGED <<dbvars, disk>>]_vars

\* A pass on an account without a token has returned the error while the
\* store held rows written by the other account's pass.
C9_Witness ==
    /\ sync_result = "no change-paging token"
    /\ disk[acct].token = NoneV
    /\ assocs # {}

\* C10: the records are handed to the loop body in the order of their
\* pages and of their positions in the page, and when the walk ends every
\* record received has been handled: an id whose last records were a removal
\* and later an update is in the store, one whose last records were an
\* update and later a removal is not.
C10_AppliedInDeliveredOrder ==
    /\ hist.in_order
    /\ hist.applied <= hist.fed
    /\ sync_pc = "hub_save" =>
          /\ hist.applied = hist.fed
          /\ \A d \in DocIds :
                /\ hist.kinds[d] \in {"upd", "rem,upd"} => docs[d] # NoneV
                /\ hist.kinds[d] \in {"rem", "upd,rem"} => docs[d] = NoneV

\* A walk of two pages has ended after a removal of an id and, on the next
\* page, an update of the same id.
C10_Witness ==
    /\ sync_pc = "hub_save"
    /\ hist.reqs = 2
    /\ \E d \in DocIds : hist.kinds[d] = "rem,upd" /\ docs[d] # NoneV

(***************************************************************************)
(* Properties of import_documents.                                         *)
(***************************************************************************)
\* C11: an import that runs right after a completed import of the same
\* account, against the same remote listing, leaves the Document,
\* AccountAssociation and Link rows as that import left them (links is a
\* set, as the primary key of the table makes it: no row is there twice).
C11_ImportIdempotent ==
    (imp_pc = "idle" /\ imp_result = "ok" /\ IsSome(imp_base)) =>
        TheDb = Unwrap(imp_base)

\* A listing of two files that has link rows has been imported twice in a
\* row.
C11_Witness ==
    /\ imp_pc = "idle"
    /\ imp_result = "ok"
    /\ IsSome(imp_base)
    /\ Len(imp_listing) = 2
    /\ LinksOf(links, acct) # {}

\* The step belongs to an import_documents pass.
ImportStep == imp_pc # "idle" \/ imp_pc' # "idle"

\* The link rows of account a that listing lst reports.
Reported(a, lst) ==
    UNION {{<<a, p, lst[i].id>> : p \in ParentSet([file |-> Some(lst[i])])} :
             i \in 1..Len(lst)}

\* C12: no step of import_documents removes a Link row: every row present
\* before an import is present after it, rows the remote listing no longer
\* reports included.
C12_ImportKeepsLinks ==
    [][ImportStep => links \subseteq links']_vars

\* An import has completed and the store holds a link row of its account
\* that its listing did not report.
C12_Witness ==
    /\ imp_pc = "idle"
    /\ imp_result = "ok"
    /\ imp_listing # <<>>
    /\ LinksOf(links, acct) \ Reported(acct, imp_listing) # {}

\* C13: applying a removal record for id d under account A changes no
\* Document row other than d's and no Link row of A in which d is neither
\* parent nor child; so after A imported root, a folder under root and a
\* document under the folder, and a sync removes the document, the rows of
\* root and the folder and the link root -> folder are as before.
C13_RemovalFrame ==
    [][(Applies /\ hist'.last.kind = "removed" /\ hist'.last.ok) =>
          /\ \A x \in AllIds \ {hist'.last.id} : docs'[x] = docs[x]
          /\ {l \in LinksOf(links', acct) :
                  l[2] # hist'.last.id /\ l[3] # hist'.last.id}
                = {l \in LinksOf(links, acct) :
                      l[2] # hist'.last.id /\ l[3] # hist'.last.id}]_vars

\* Account 1 imported its root, folder d under the root and document e
\* under d, and a sync pass of the account has then removed e.
C13_Witness ==
    /\ acct = 1
    /\ imp_result = "ok"
    /\ Len(imp_listing) = 2
    /\ Reported(1, imp_listing) = {<<1, "r1", "d">>, <<1, "d", "e">>}
    /\ hist.last.kind = "removed"
    /\ hist.last.ok
    /\ hist.last.id = "e"
    /\ docs["e"] = NoneV
    /\ \A l \in links : l[3] # "e"
    /\ docs["r1"] # NoneV
    /\ docs["d"] # NoneV
    /\ <<1, "r1", "d">> \in links

(***************************************************************************)
(* Properties of maybe_sync_all_accounts.                                  *)
(***************************************************************************)
\* The account of log entry e was synced and its pass ended with an error.
Failed(e) == e.synced /\ e.result \notin {"running", "ok"}

StopsAtFirstFailure ==
    /\ \A i \in 1..Len(drv_log) :
          /\ Failed(drv_log[i]) =>
                /\ i = Len(drv_log)
                /\ drv_pc = "idle"
                /\ drv_result = drv_log[i].result
          /\ drv_log[i].a \notin Range(drv_todo)
          /\ i < Len(drv_log) =>
                /\ drv_log[i].result \in {"ok", "skipped"}
                /\ disk[drv_log[i].a] = drv_log[i].saved
                /\ drv_log[i].synced => disk[drv_log[i].a].token # NoneV
    /\ sync_pc # "idle" =>
          /\ drv_pc = "wait"
          /\ drv_log[Len(drv_log)].a = acct
          /\ drv_log[Len(drv_log)].result = "running"

\* C14: maybe_sync_all_accounts takes the accounts one after another and
\* returns the error of the first sync_account that fails: no account is
\* handled after a failed one, the accounts still to come are not synced,
\* the file of an account synced earlier in the call holds what its pass
\* wrote, token included, and no step outside a sync pass touches the store
\* or the accounts' files, so nothing is rolled back.
C14_StopsAtFirstFailure ==
    /\ []StopsAtFirstFailure
    /\ [][(sync_pc = "idle" /\ sync_pc' = "idle") =>
             UNCHANGED <<dbvars, disk>>]_vars

\* A call has returned the error of its second account, whose pass failed
\* before its first request; the pass of the first account had stored a
\* document and written its new token.
C14_Witness ==
    /\ drv_pc = "idle"
    /\ Len(drv_log) = 2
    /\ drv_log[1].synced
    /\ drv_log[1].result = "ok"
    /\ drv_log[2].result = "http client"
    /\ drv_result = "http client"
    /\ disk[drv_log[1].a].token = NewStartTok
    /\ \E d \in DocIds : docs[d] # NoneV

\* C15: maybe_sync_all_accounts syncs an account if and only if the option
\* is Yes, or it is Auto and the account has no last_sync or now - last_sync
\* is more than 5 minutes; and the last_sync in an account's file changes
\* only when the account's sync pass succeeds.
C15_SyncsWhenDue ==
    /\ drv_pc \in {"loop", "wait"} =>
          \A i \in 1..Len(drv_log) :
              drv_log[i].synced <=>
                 \/ opt = "Yes"
                 \/ /\ opt = "Auto"
                    /\ \/ drv_log[i].last0 = NoOpt
                       \/ clock - Unwrap(drv_log[i].last0) > 5
    /\ \A i \in 1..Len(drv_log) :
          drv_log[i].result \notin {"running", "ok"} =>
              disk[drv_log[i].a].last_sync = drv_log[i].last0

(***************************************************************************)
(* Properties of the specifier resolution.                                 *)
(***************************************************************************)

\* The last call resolved a specifier.
Resolved == cli.fn \in {"process", "process_one"}

\* C16: when a document whose id equals the specifier exists, the
\* resolution yields exactly that one document, whatever the names of the
\* other documents, and process and process_one return it.
C16_ExactIdWins ==
    Resolved =>
        \A id \in DOMAIN docs :
            (HasRow(id) /\ IdText(id) = cli.spec) =>
                /\ cli.matched = Ok(<<id>>)
                /\ cli.ret = Ok(<<id>>)

\* Document d was asked for by its id while document e is named like that id.
C16_Witness ==
    /\ Resolved
    /\ cli.spec = IdText("d")
    /\ HasRow("d")
    /\ HasRow("e")
    /\ doc_cols["e"].name = cli.spec
    /\ cli.ret = Ok(<<"d">>)

\* C17: process_one returns a document exactly when the specifier matched
\* one document, and then that document.  No match is an error whatever
\* zero_ok was set to.  N > 1 matches are an error too, and the listing
\* process_one hands to print_doc_list is the first min(N, MAX_TO_PRINT) of
\* the matches; when print_doc_list reports no database failure, the
\* last-print listing holds that list.
C17_ProcessOne ==
    cli.fn = "process_one" =>
        \E N \in {Len(cli.matched.docs)} :
            /\ cli.ret.ok <=> (cli.matched.ok /\ N = 1)
            /\ cli.ret.ok => cli.ret.docs = cli.matched.docs
            /\ (cli.matched.ok /\ N = 0) =>
                   cli.ret = Err("no documents matched the specification")
            /\ (cli.matched.ok /\ N > 1) =>
                   /\ cli.ret = Err("specification should have matched exactly one document")
                   /\ Len(cli.listing) = (IF N < MAX_TO_PRINT THEN N ELSE MAX_TO_PRINT)
                   /\ cli.listing = SubSeq(cli.matched.docs, 1, Len(cli.listing))
                   /\ cli.printed => ListingDocs(CLI_LAST_PRINT_ID) = cli.listing
            /\ (cli.matched.ok /\ N < 2) => (cli.listing = <<>> /\ ~cli.printed)

\* More than MAX_TO_PRINT documents matched, and the listing was printed.
C17_Witness ==
    /\ cli.fn = "process_one"
    /\ cli.matched.ok
    /\ Len(cli.matched.docs) > MAX_TO_PRINT
    /\ cli.printed
    /\ Len(cli.listing) = MAX_TO_PRINT
    /\ ~cli.ret.ok

\* C18: when the resolution matched nothing, process returns the error "no
\* documents matched" if zero_ok is false and the empty list if it is true;
\* when it matched something, process returns all the matches, each once,
\* by modification time with the most recent first.  An error of the
\* resolution is returned as it is.
C18_Process ==
    cli.fn = "process" =>
        \E N \in {Len(cli.matched.docs)} :
            /\ ~cli.matched.ok => cli.ret = cli.matched
            /\ (cli.matched.ok /\ N = 0 /\ ~cli.zero_ok) =>
                   cli.ret = Err("no documents matched the specification")
            /\ (cli.matched.ok /\ N = 0 /\ cli.zero_ok) => cli.ret = Ok(<<>>)
            /\ (cli.matched.ok /\ N > 0) =>
                   /\ cli.ret.ok
                   /\ Len(cli.ret.docs) = N
                   /\ Range(cli.ret.docs) = Range(cli.matched.docs)
                   /\ \A i, j \in 1..N :
                          i < j => doc_cols[cli.ret.docs[i]].modified_time
                                      >= doc_cols[cli.ret.docs[j]].modified_time

\* process returned two documents in another order than the query gave them.
C18_Witness ==
    /\ cli.fn = "process"
    /\ cli.ret.ok
    /\ Len(cli.ret.docs) = 2
    /\ cli.ret.docs # cli.matched.docs
    /\ doc_cols[cli.ret.docs[1]].modified_time > doc_cols[cli.ret.docs[2]].modified_time

\* The documents the rows of the CWD slot name.
CwdSlot == {r[3] : r \in {q \in listitems : q[1] = CLI_CWD_ID}}

\* C19: resolving "." yields the document recorded in the CWD slot.  When
\* the slot has no row, the result is the error "the virtual CWD is not
\* currently defined", also with zero_ok set, and resolving ".." in that
\* state gives the same error and not an empty result.
C19_CwdReference ==
    Resolved =>
        /\ (cli.spec = <<".">> /\ CwdSlot # {}) =>
               /\ cli.matched.ok
               /\ Range(cli.matched.docs) = CwdSlot
               /\ cli.ret = cli.matched
        /\ (cli.spec \in {<<".">>, <<".", ".">>} /\ CwdSlot = {}) =>
               /\ cli.matched = Err("the virtual CWD is not currently defined")
               /\ cli.ret = cli.matched

\* ".." was resolved with zero_ok set while the CWD slot was empty.
C19_Witness ==
    /\ cli.fn = "process"
    /\ cli.spec = <<".", ".">>
    /\ cli.zero_ok
    /\ CwdSlot = {}
    /\ ~cli.ret.ok

\* The paths find_parent_paths returns for document id in account a.
ParentPaths(a, id) ==
    Range(find_parent_paths(load_linkage_table(LinkRowsOf(a), TRUE), id))

\* C20: resolving ".." yields exactly the last elements of the paths that
\* find_parent_paths returns for the CWD document in the accounts the
\* document is associated with: each such parent once, however many paths
\* or accounts lead to it, and nothing for an empty path.
C20_CwdParents ==
    (Resolved /\ cli.spec = <<".", ".">>) =>
        \A cwd \in CwdSlot :
            /\ cli.matched.ok
            /\ Range(cli.matched.docs) =
                  {id \in DOMAIN docs :
                      \E a \in accounts_of(cwd) : \E p \in ParentPaths(a, cwd) :
                          p # <<>> /\ p[Len(p)] = id}
            /\ Len(cli.matched.docs) = Cardinality(Range(cli.matched.docs))

\* The CWD document has one parent, which two paths of one account and a
\* path of the other account end in.
C20_Witness ==
    /\ Resolved
    /\ cli.spec = <<".", ".">>
    /\ cli.matched = Ok(<<"e">>)
    /\ \E cwd \in CwdSlot :
          /\ accounts_of(cwd) = Accounts
          /\ \E a \in Accounts : Cardinality(ParentPaths(a, cwd)) > 1
          /\ \A a \in Accounts : \E p \in ParentPaths(a, cwd) : p # <<>>

\* The documents of the rows at position pos of the last-printed listing.
LastPrintedAt(pos) ==
    {r[3] : r \in {q \in listitems : q[1] = CLI_LAST_PRINT_ID /\ q[2] = pos}}

\* C21: "%N" yields the document stored at position N - 1 of the
\* last-printed listing.  When the listing has no row at that position (N is
\* beyond its length, N is 0, or nothing was printed yet), the result is the
\* error "not a valid recent-document reference".
C21_RecentReference ==
    Resolved =>
        \A N \in 0..9 :
            cli.spec = <<"%", Digits[N + 1]>> =>
                /\ \A id \in LastPrintedAt(N - 1) :
                       HasRow(id) => (cli.matched = Ok(<<id>>) /\ cli.ret = Ok(<<id>>))
                /\ LastPrintedAt(N - 1) = {} =>
                       /\ cli.matched = Err("not a valid recent-document reference")
                       /\ cli.ret = cli.matched

\* "%2" was resolved against a listing of two documents.
C21_Witness ==
    /\ Resolved
    /\ cli.spec = <<"%", "2">>
    /\ cli.ret.ok
    /\ LastPrintedAt(0) # {}
    /\ LastPrintedAt(1) = {cli.ret.docs[1]}
    /\ LastPrintedAt(1) # LastPrintedAt(0)

(***************************************************************************)
(* Properties of the two listings.                                         *)
(***************************************************************************)

\* The last call handed a list that is not empty to print_doc_list, and
\* print_doc_list wrote it.
Printed ==
    /\ cli.fn \in {"print_doc_list", "process_one"}
    /\ cli.listing # <<>>
    /\ cli.printed

\* C22: after print_doc_list has written a list of n > 0 documents, the
\* last-printed listing holds those n ids at positions 0..n-1 in the order
\* of the list and no other row, and the rows of other listings are as they
\* were.  In every state a (listing_id, position) pair has at most one row.
C22_ListingReplaced ==
    /\ Printed =>
          /\ {r \in listitems : r[1] = CLI_LAST_PRINT_ID}
                = {<<CLI_LAST_PRINT_ID, i - 1, cli.listing[i]>> : i \in 1..Len(cli.listing)}
          /\ {r \in listitems : r[1] # CLI_LAST_PRINT_ID}
                = {r \in cli.before : r[1] # CLI_LAST_PRINT_ID}
    /\ \A r, q \in listitems : (r[1] = q[1] /\ r[2] = q[2]) => r = q

\* A list was printed that is shorter than the listing printed before it.
C22_Witness ==
    /\ Printed
    /\ Cardinality({r \in cli.before : r[1] = CLI_LAST_PRINT_ID}) > Len(cli.listing)

\* The rows of the CWD slot in table rows.
CwdRows(rows) == {r \in rows : r[1] = CLI_CWD_ID}

\* C23: the CWD slot never holds more than one row.  A set_cwd on a folder
\* that reports no database failure leaves exactly the row at position 0
\* that names the folder; a set_cwd on a document that is not a folder
\* returns an error and leaves the table as it was.
C23_CwdSlot ==
    /\ Cardinality(CwdRows(listitems)) <= 1
    /\ cli.fn = "set_cwd" =>
          \A doc \in {cli.matched.docs[1]} :
              /\ (doc_cols[doc].folder /\ cli.ret.ok) =>
                     /\ CwdRows(listitems) = {<<CLI_CWD_ID, 0, doc>>}
                     /\ listitems \ CwdRows(listitems) = cli.before \ CwdRows(cli.before)
              /\ ~doc_cols[doc].folder =>
                     /\ cli.ret = Err("cannot set virtual CWD to non-folder")
                     /\ listitems = cli.before

\* set_cwd put a folder into the slot that held another folder.
C23_Witness ==
    /\ cli.fn = "set_cwd"
    /\ cli.ret.ok
    /\ \E r \in CwdRows(cli.before) : r[3] # cli.matched.docs[1]
    /\ CwdRows(listitems) = {<<CLI_CWD_ID, 0, cli.matched.docs[1]>>}

(***************************************************************************)
(* Properties of login and sync --rebuild.                                 *)
(***************************************************************************)

\* import_documents has been called by the command and has not returned, or
\* has returned to a command that has not gone on yet.
InImport == cmd.pc = "importing"

\* C24: in login and in sync --rebuild, when import_documents runs the
\* command has fetched a start token and the account's file holds it; no
\* import_documents runs while the file of its account lacks a token; and
\* the file holds the same token all through the import and when it has
\* returned.
C24_TokenBeforeImport ==
    /\ imp_pc # "idle" => (InImport /\ acct = cmd.a)
    /\ InImport =>
          /\ cmd.fetched \in StartToks
          /\ disk[cmd.a].token = cmd.fetched

\* The import of an account that had no token when the command began has
\* run to its end.
C24_Witness ==
    /\ InImport
    /\ imp_pc = "idle"
    /\ imp_result = "ok"
    /\ cmd.kind = "login"
    /\ disk[cmd.a].token = cmd.fetched
    /\ disk[cmd.a].root = RootOf(cmd.a)

(***************************************************************************)
(* Properties of find_parent_paths on small graphs and of the linkage      *)
(* table.                                                                  *)
(***************************************************************************)
\* The call has come to its end, by returning or otherwise.
FppOver == fpp_pc \in {"done", "hang", "panic"}

\* The parents of n in the link rows loaded.
ParentsOf(n) == {r[1] : r \in {q \in Range(link_rows) : q[2] = n}}

TwoParentlessParents ==
    /\ Cardinality(ParentsOf(start_id)) = 2
    /\ \A p \in ParentsOf(start_id) : ParentsOf(p) = {}

\* C25: for a start node with exactly two distinct parents, neither of
\* which has a parent, find_parent_paths returns exactly two paths, each of
\* one element, one per parent, in either order.
C25_TwoParents ==
    (FppOver /\ TwoParentlessParents) =>
        /\ fpp_pc = "done"
        /\ Len(results) = 2
        /\ {results[i] : i \in 1..2} = {<<p>> : p \in ParentsOf(start_id)}

\* Such a call has returned, for a start that has a child of its own and
\* whose parents' rows were loaded around that child's row.
C25_Witness ==
    /\ fpp_pc = "done"
    /\ TwoParentlessParents
    /\ Len(link_rows) = 3
    /\ link_rows[2][1] = start_id
    /\ Len(results) = 2

\* C26: for a start id that is in no link row, find_parent_paths returns no
\* path and walks nothing: the work list and the predecessor map are never
\* seeded and no node is popped.
C26_UnknownStart ==
    (fpp_pc # "idle" /\ start_id \notin GraphNodes(link_rows)) =>
        /\ fpp_pc \in {"call", "done"}
        /\ results = <<>>
        /\ queue = <<>>
        /\ path_data = EmptyMap
        /\ cur_ix = NoneV

\* The call has returned for an id that no row of a non-empty table names.
C26_Witness ==
    /\ fpp_pc = "done"
    /\ link_rows # <<>>
    /\ start_id \notin GraphNodes(link_rows)
    /\ results = <<>>

\* C27: for a start node that is in the graph and is itself a root,
\* find_parent_paths returns exactly one path, the empty one.
C27_StartIsRoot ==
    (FppOver /\ start_id \in GraphNodes(link_rows) /\ ParentsOf(start_id) = {}) =>
        /\ fpp_pc = "done"
        /\ results = << <<>> >>

\* The call has returned for a root that has children and grandchildren.
C27_Witness ==
    /\ fpp_pc = "done"
    /\ ParentsOf(start_id) = {}
    /\ \E c \in GraphIds : IsParentOf(start_id, c) /\ \E g \in GraphIds : IsParentOf(c, g)
    /\ results = << <<>> >>

\* The parents of id in the link rows of account a.
ParentsIn(a, id) == {l[2] : l \in {q \in links : q[1] = a /\ q[3] = id}}

\* Account a holds id as a child of its root folder and of nothing else,
\* and the root folder has no parent.
UnderOwnRoot(a, id) ==
    /\ ParentsIn(a, id) = {RootOf(a)}
    /\ ParentsIn(a, RootOf(a)) = {}

\* C28: when two accounts have each imported the same document id as a
\* child of their own root folder, find_parent_paths on the transposed
\* graph of either account returns exactly one path, made of that account's
\* own root and never of the other's.
C28_OwnRootOnly ==
    \A a, b \in Accounts : \A id \in DocIds :
        (a # b /\ UnderOwnRoot(a, id) /\ UnderOwnRoot(b, id)) =>
            \A rows \in RowOrders(a) :
                find_parent_paths(load_linkage_table(rows, TRUE), id)
                    = << <<RootOf(a)>> >>

\* Both accounts have completed an import that listed folder d in their own
\* root, and one of them holds a document in d as well.
C28_Witness ==
    /\ imp_pc = "idle"
    /\ imp_result = "ok"
    /\ \A a \in Accounts : UnderOwnRoot(a, "d") /\ disk[a].root = RootOf(a)
    /\ \E a \in Accounts : ParentsIn(a, "e") = {"d"}

(***************************************************************************)
(* Properties of the store under imports and sync passes of two accounts.  *)
(***************************************************************************)
\* Every row of docs has a row of account_associations.
NoOrphanDoc ==
    \A id \in AllIds : docs[id] # NoneV => \E a \in Accounts : <<id, a>> \in assocs

\* A statement sent to the database in this step failed: one of a change
\* record, or one of import_documents.
StmtFailed ==
    \/ Applies /\ ~hist'.last.ok
    \/ ~Applies /\ imp_pc' = "idle" /\ imp_result' = "database"

\* C29: whenever every Document row has an AccountAssociation row, it is
\* so again after any step of an import pass or a sync pass of any account
\* in which no statement failed: after a file stored by import_documents,
\* after an update applied, after a removal applied.  The empty store has
\* the property, so every sequence of such steps keeps it.
C29_DocsHaveAccounts ==
    [][(NoOrphanDoc /\ ~StmtFailed) => NoOrphanDoc']_vars

\* A removal has just been applied under one account to a document that
\* another account holds under its root.
C29_Witness ==
    /\ hist.last.kind = "removed"
    /\ hist.last.ok
    /\ sync_pc # "idle"
    /\ \E b \in Accounts \ {acct} : <<b, RootOf(b), hist.last.id>> \in links
    /\ docs[hist.last.id] = NoneV
    /\ \E id \in AllIds : docs[id] # NoneV
    /\ NoOrphanDoc

(***************************************************************************)
(* Properties of load_linkage_table.                                       *)
(***************************************************************************)
\* The edge that stands for link row l = <<account_id, parent_id, child_id>>.
EdgeFor(l, transposed) == IF transposed THEN <<l[3], l[2]>> ELSE <<l[2], l[3]>>

\* C30: load_linkage_table(A, transposed) builds a graph whose nodes are
\* exactly the ids that occur in the link rows of account A and whose edges
\* are one per link row of A, parent -> child when transposed is false and
\* child -> parent when it is true, in whatever order the rows arrive; no
\* edge occurs twice, and no node or edge comes from a row of another
\* account.
C30_OneEdgePerRow ==
    \A a \in Accounts : \A transposed \in BOOLEAN : \A rows \in RowOrders(a) :
        LET table == load_linkage_table(rows, transposed)
            mine == {l \in links : l[1] = a}
        IN  /\ table.transposed = transposed
            /\ table.nodes = {l[2] : l \in mine} \cup {l[3] : l \in mine}
            /\ Len(table.edges) = Cardinality(mine)
            /\ NoDup(table.edges)
            /\ Range(table.edges) = {EdgeFor(l, transposed) : l \in mine}
            /\ \A i \in 1..Len(rows) :
                  table.edges[i] = EdgeFor(<<a, rows[i][1], rows[i][2]>>, transposed)

\* A ".." has been resolved to two folders through the table of an account
\* that has two link rows, on a store where another account has a row over
\* an id that the first account's rows do not have.
C30_Witness ==
    /\ Resolved
    /\ cli.spec = <<".", ".">>
    /\ cli.matched.ok
    /\ Len(cli.matched.docs) = 2
    /\ \E a \in Accounts :
          /\ Cardinality({l \in links : l[1] = a}) = 2
          /\ \E l \in links : \E x \in {l[2], l[3]} :
                /\ l[1] # a
                /\ \A m \in links : m[1] = a => (m[2] # x /\ m[3] # x)

(***************************************************************************)
(* Properties of the predecessor map of find_parent_paths.                 *)
(***************************************************************************)
\* How often x occurs in sequence s.
Count(s, x) == Cardinality({i \in 1..Len(s) : s[i] = x})

RECURSIVE ChainOf(_, _, _)
ChainOf(pd, ix, seen) ==
    IF ix \in seen \/ ix \notin DOMAIN pd THEN seen
    ELSE IF pd[ix] = NoneV THEN seen \cup {ix}
    ELSE ChainOf(pd, pd[ix], seen \cup {ix})

NoPayload(last) ==
    /\ last.kind \in {"skip", "no_file"}
    /\ last.id # NoneV
    /\ last.removed # Some(TRUE)
    /\ ~last.has_file

\* C32: a change record that has a file_id, is not marked removed and
\* carries no file payload makes sync_account return an error: handling it
\* changes no row of the store, so that what earlier records wrote stays;
\* the pass ends there, the record being the last one handled; and the
\* account's file is not written and holds the token the pass started from.
C32_NoPayloadFails ==
    /\ [][(Applies /\ NoPayload(hist'.last)) =>
             /\ UNCHANGED dbvars
             /\ ~hist'.last.ok
             /\ sync_pc' = "idle"
             /\ sync_result' = "no file information"
             /\ disk' = disk]_vars
    /\ [](sync_result = "no file information" =>
             /\ sync_pc = "idle"
             /\ NoPayload(hist.last)
             /\ disk[acct].token = hist.tok0)

\* The second record of a pass had no payload; the document the first
\* record stored is in the store.
C32_Witness ==
    /\ sync_result = "no file information"
    /\ hist.applied = 2
    /\ \E d \in DocIds : hist.kinds[d] = "upd" /\ docs[d] # NoneV /\ <<d, acct>> \in assocs

(***************************************************************************)
(* Properties of the paging iterators.                                     *)
(***************************************************************************)
\* The calls of next() so far, once an iterator has been made.
Calls == IF sync_pc = "iter" THEN hist.calls ELSE <<>>

\* Call i asked the server for a page.
Asked(i) == IsSome(Calls[i].asked)

\* The page is the final one of its feed: it names no next page.
FinalPage(page) == page.next = NoneV

\* The answer to a request is one the iterator cannot go on from.
Unusable(kind, page) ==
    \/ ~page.ok
    \/ ~IsSome(page.changes)
    \/ kind = "changes" /\ page.next = NoneV /\ page.new_start = NoneV
    \/ IsSome(page.changes) /\ Unwrap(page.changes) = 0 /\ ~FinalPage(page)

\* After call i every call returns None and asks the server nothing.
EndsAt(i) ==
    \A j \in (i + 1)..Len(Calls) : Calls[j].out = <<"none">> /\ ~Asked(j)

\* C33: a page request that fails, a page without its record list, an
\* empty page that is not the final one, or a change page with neither
\* token makes next() return one error, after which every next() returns
\* None and no request is issued; an empty final page makes next() return
\* None, without any error, and ends the iteration likewise.
C33_OneErrorThenEnd ==
    \A i \in 1..Len(Calls) :
        /\ (Asked(i) /\ Unusable(hist.kind, Unwrap(Calls[i].page))) =>
              /\ Calls[i].out[1] = "err"
              /\ EndsAt(i)
        /\ (Asked(i) /\ ~Unusable(hist.kind, Unwrap(Calls[i].page))
              /\ Unwrap(Unwrap(Calls[i].page).changes) = 0) =>
              /\ Calls[i].out = <<"none">>
              /\ EndsAt(i)
        /\ Calls[i].out[1] = "err" =>
              /\ Asked(i)
              /\ Unusable(hist.kind, Unwrap(Calls[i].page))

\* The second page of a change feed arrived empty without being the final
\* one, after the items of the first page had been yielded, and next() has
\* been called twice more.
C33_Witness ==
    /\ sync_pc = "iter"
    /\ hist.kind = "changes"
    /\ \E i \in 3..(Len(Calls) - 2) :
          /\ Calls[i].out = <<"err", "empty page">>
          /\ Calls[1].out[1] = "item"
          /\ Calls[Len(Calls)].out = <<"none">>

\* The calls that asked for a page, in order.
Requests == SelectSeq([i \in 1..Len(Calls) |-> i], Asked)

\* Every page received so far is usable and, unless final, not empty.
FeedIsRegular ==
    \A i \in 1..Len(Calls) :
        Asked(i) =>
            /\ ~Unusable(hist.kind, Unwrap(Calls[i].page))
            /\ Unwrap(Unwrap(Calls[i].page).changes) > 0
                  \/ FinalPage(Unwrap(Calls[i].page))

\* The items of the pages received, page by page.
RECURSIVE ItemsOfPages(_)
ItemsOfPages(k) ==
    IF k = 0 THEN <<>>
    ELSE ItemsOfPages(k - 1)
            \o PageItems(k, Unwrap(Unwrap(Calls[Requests[k]].page).changes))

\* The items next() has returned, in order.
Yielded ==
    LET items == SelectSeq(Calls, LAMBDA c : c.out[1] = "item")
    IN  [i \in 1..Len(items) |-> items[i].out[2]]

\* C34: on a feed whose pages are all non-empty except possibly the last,
\* the items yielded are the items of the pages received, each once, in
\* page order and in-page order: all of them but those still in hand, and
\* all of them once next() has returned None; no call returns an error;
\* the first request carries the stored token (changes) or no page token
\* (files), each later request the next-page token of the page before; and
\* no request follows the final page.
C34_EveryRecordOnce ==
    FeedIsRegular =>
        LET all == ItemsOfPages(Len(Requests))
        IN  /\ Len(Yielded) <= Len(all)
            /\ Yielded = SubSeq(all, 1, Len(Yielded))
            /\ \A i \in 1..Len(Calls) : Calls[i].out[1] # "err"
            /\ \A i \in 1..Len(Calls) : Calls[i].out = <<"none">> =>
                   /\ Len(SelectSeq(SubSeq(Calls, 1, i), LAMBDA c : c.out[1] = "item"))
                         = Len(all)
                   /\ FinalPage(Unwrap(Calls[Requests[Len(Requests)]].page))
            /\ \A k \in 1..Len(Requests) :
                   /\ Unwrap(Calls[Requests[k]].asked) =
                         IF k = 1
                         THEN (IF hist.kind = "changes" THEN hist.tok0 ELSE NoneV)
                         ELSE Unwrap(Calls[Requests[k - 1]].page).next
                   /\ k < Len(Requests) =>
                         ~FinalPage(Unwrap(Calls[Requests[k]].page))

\* Two full pages have been yielded and next() has returned None.
C34_Witness ==
    /\ sync_pc = "iter"
    /\ FeedIsRegular
    /\ Len(Requests) = 2
    /\ Len(Yielded) = 2 * MaxPageLen
    /\ Calls # <<>>
    /\ Calls[Len(Calls)].out = <<"none">>

(***************************************************************************)
(* Properties of a failing import_documents.                               *)
(***************************************************************************)
\* A step of an import pass, the call that fails at once included, other
\* than the one that completes the pass.
ImportGoesOnOrFails ==
    /\ ImportStep \/ imp_result' # imp_result
    /\ imp_result' # "ok"

\* C35: from its start up to the step in which it fails, whether on a
\* remote call, on a statement sent to the store or on writing the
\* account's file, an import pass leaves root_folder_id and last_sync in
\* the account's file as they were, and removes no Document,
\* AccountAssociation or Link row: what the pass wrote before it failed
\* stays.
C35_FailedImportPersistsNothing ==
    [][ImportGoesOnOrFails =>
          /\ disk'[acct'].root = disk[acct'].root
          /\ disk'[acct'].last_sync = disk[acct'].last_sync
          /\ \A id \in AllIds : docs[id] # NoneV => docs'[id] # NoneV
          /\ assocs \subseteq assocs'
          /\ links \subseteq links']_vars

\* The first import of an account has failed on the statement for the
\* association of a listed file: the rows of the root folder and of the
\* file are in the store, the account's file has neither root_folder_id
\* nor last_sync.
C35_Witness ==
    /\ imp_pc = "idle"
    /\ imp_result = "database"
    /\ docs[RootOf(acct)] # NoneV
    /\ \E id \in DocIds : docs[id] # NoneV /\ <<id, acct>> \notin assocs
    /\ disk[acct].root = NoneV
    /\ disk[acct].last_sync = NoOpt

(***************************************************************************)
(* Properties of a removal with respect to the other accounts.             *)
(***************************************************************************)
\* The rows of account_associations and of links that belong to account b.
RowsOwnedBy(as, ls, b) ==
    [assocs |-> {x \in as : x[2] = b}, links |-> {l \in ls : l[1] = b}]

\* C36: applying a removal record for id d in the change feed of account A
\* leaves every Link row and every AccountAssociation row of any other
\* account B as it was.
C36_OtherAccountsKept ==
    [][(Applies /\ hist'.last.kind = "removed" /\ hist'.last.ok) =>
          \A b \in Accounts \ {acct} :
              RowsOwnedBy(assocs', links', b) = RowsOwnedBy(assocs, links, b)]_vars

(***************************************************************************)
(* Properties of a replayed change feed.                                   *)
(***************************************************************************)
\* C37: applying a change feed up to any point in it, even part of the
\* statements of one record, and then the whole feed from its beginning
\* leaves the Document, AccountAssociation and Link rows that applying the
\* whole feed once leaves.
C37_ReplayConverges ==
    sync_pc = "replayed" => TheDb = ApplyFeed(hist.start, 1, hist.feed, 1)

\* A feed of three records has been replayed after a pass over a store
\* with rows was cut short between the statements of its second record,
\* and the replay has changed the store the cut left.
C37_Witness ==
    /\ sync_pc = "replayed"
    /\ Len(hist.feed) = 3
    /\ hist.k = 2
    /\ hist.n \in 1..(Len(HandleChange(1, hist.feed[2]).stmts) - 1)
    /\ hist.start.assocs # {}
    /\ hist.cut # hist.start
    /\ TheDb # hist.cut

(***************************************************************************)
(* Properties of ".." over the stores that passes leave.                   *)
(***************************************************************************)
\* app.rs 668-680 over the store: the ids ".." collects for document cwd
\* from the table of account a, when the query yields the rows in this
\* order.
CollectedVia(rows, cwd) ==
    {PathParent(p) :
        p \in {q \in Range(find_parent_paths(load_linkage_table(rows, TRUE), cwd)) :
                  q # <<>>}} \cap AllIds

\* C38: in every store that imports and sync passes leave, every parent id
\* that ".." collects from the link graph for a document with a row has a
\* row of docs, so that ids_to_docs finds every id.
C38_ParentsHaveRows ==
    \A cwd \in AllIds : HasRow(cwd) =>
        \A a \in accounts_of(cwd) : \A rows \in RowOrders(a) :
            \A pid \in CollectedVia(rows, cwd) : HasRow(pid)

(***************************************************************************)
(* Properties of the token a completed pass leaves.                        *)
(***************************************************************************)
\* C39: when sync_account succeeds, the token in the account's file is the
\* newStartPageToken that came with the last page of the walk; neither the
\* nextPageToken nor the newStartPageToken of an earlier page is ever in an
\* account's file.
C39_NewStartTokenPersisted ==
    /\ (sync_pc = "idle" /\ sync_result = "ok") => disk[acct].token = NewStartTok
    /\ \A a \in Accounts :
          disk[a].token \notin {NextTok(k) : k \in 1..MaxPages} \cup {EarlyStartTok}

\* A pass over more than one page has succeeded: it asked with the
\* nextPageToken of its first page and has saved the token of its last.
C39_Witness ==
    /\ sync_pc = "idle"
    /\ sync_result = "ok"
    /\ hist.reqs >= 2
    /\ hist.applied >= 1
    /\ disk[acct].token = NewStartTok

(***************************************************************************)
(* Properties of the listing an ambiguous process_one leaves.              *)
(***************************************************************************)
\* The text "%K".
RefText(K) ==
    IF K < 10 THEN <<"%", Digits[K + 1]>>
    ELSE <<"%", Digits[(K \div 10) + 1], Digits[(K % 10) + 1]>>

\* The last call was a process_one that matched more than one document.
Ambiguous ==
    /\ cli.fn = "process_one"
    /\ cli.matched.ok
    /\ Len(cli.matched.docs) > 1

\* C40: after a process_one with more than one match whose listing was
\* written, the last-printed listing is the first MAX_TO_PRINT of the
\* matches at most, with none of the rows it had before, and "%K" resolves
\* to the K-th of these candidates or, beyond them, to no document; a
\* process_one with no match, one match or an error in the resolution
\* leaves the rows of the listings as they are.
C40_AmbiguousListing ==
    /\ [](Ambiguous /\ cli.printed =>
            \E n \in {IF Len(cli.matched.docs) > MAX_TO_PRINT
                       THEN MAX_TO_PRINT ELSE Len(cli.matched.docs)} :
               /\ ListingRows(CLI_LAST_PRINT_ID)
                     = {<<CLI_LAST_PRINT_ID, i - 1, cli.matched.docs[i]>> : i \in 1..n}
               /\ \A K \in 0..(MAX_TO_PRINT + 1) :
                     process_impl(RefText(K))
                        = IF K \in 1..n THEN Ok(<<cli.matched.docs[K]>>)
                          ELSE Err("not a valid recent-document reference"))
    /\ [][(cli'.fn = "process_one" /\ ~(cli'.matched.ok /\ Len(cli'.matched.docs) > 1))
             => listitems' = listitems]_vars

\* A process_one matched more than MAX_TO_PRINT documents while a listing
\* printed before was in place: the listing now holds MAX_TO_PRINT
\* candidates, and "%2" no longer names the document it named before.
C40_Witness ==
    /\ Ambiguous
    /\ cli.printed
    /\ Len(cli.matched.docs) > MAX_TO_PRINT
    /\ Cardinality(ListingRows(CLI_LAST_PRINT_ID)) = MAX_TO_PRINT
    /\ \E r \in cli.before :
          /\ r[1] = CLI_LAST_PRINT_ID
          /\ r[2] = 1
          /\ process_impl(RefText(2)) # Ok(<<r[3]>>)

====
